---- MODULE Spec2Model ----
(***************************************************************************)
(* Movie Management System: the REST handlers over the document store.     *)
(* The collections (User, Movie, Person, ReviewAndRating, CustomList,      *)
(* News) are the state; one action per route handler.  In Spec,            *)
(* SpecReviews, SpecLists and SpecOwned a handler runs to completion       *)
(* (requests handled one at a time); in SpecConc the review handlers are   *)
(* split at their datastore calls (every await) and interleave.            *)
(***************************************************************************)
EXTENDS Integers, Sequences, FiniteSets, TLC

VARIABLES users, movies, persons, reviews, lists, news, discussions, ids, resp, procs

vars == <<users, movies, persons, reviews, lists, news, discussions, ids, resp, procs>>

(***************************************************************************)
(* Bounds of the exploration: the documents the handlers may create (the   *)
(* reviews in all), the length of an id array in a request body, and the   *)
(* requests in flight together.                                            *)
(***************************************************************************)
MaxMovies == 1
MaxPersons == 1
MaxReviews == 2
MaxLists == 2
MaxNews == 1
MaxCast == 1

(***************************************************************************)
(* Identifiers.  An ObjectId is modelled as <<collection, n>>, n the       *)
(* number of the document in creation order; ids are never reused.         *)
(***************************************************************************)
MovieId(n) == <<"m", n>>
PersonId(n) == <<"p", n>>
ListId(n) == <<"l", n>>
NewsId(n) == <<"n", n>>
ReviewId(n) == <<"r", n>>
\* a string that is not a well-formed ObjectId (ObjectId.isValid is false)
BadId == <<"bad", 0>>
\* the field is absent from the request (undefined)
NoId == <<"none", 0>>
IsValidObjectId(id) == id[1] \notin {"bad", "none"}

UserIds == {"u1", "a1"}
RoleOf(u) == IF u = "a1" THEN "admin" ELSE "user"
\* a User document after POST /register (and a role set for the admin)
registered(u) == [role |-> RoleOf(u), wishlist |-> <<>>]

\* rating 0 also stands for an absent rating: both are falsy in the handlers
RatingInputs == {-1, 0, 1, 2, 6}
\* "" also stands for an absent text: both are falsy and both fail `required`
TextInputs == {"", "good"}
Titles == {"", "t1", "t2"}
\* averageRating in a movie body: -1 stands for absent
AvgInputs == {-1, 3}
ListNames == {"", "a", "b"}
Descriptions == {"", "d"}

SeqsUpTo(S, n) == UNION {[1..k -> S] : k \in 0..n}
\* an array field that is absent from the body
AbsentArr == <<NoId>>

(***************************************************************************)
(* Rational numbers <<numerator, denominator>> in lowest terms: the value  *)
(* of a JavaScript division of two small integers.  0/0 is NaN.            *)
(***************************************************************************)
RECURSIVE GCD(_, _)
GCD(a, b) == IF b = 0 THEN a ELSE GCD(b, a % b)

NaN == <<0, 0>>
Frac(n, d) == IF d = 0 THEN NaN ELSE <<n \div GCD(n, d), d \div GCD(n, d)>>
Num(k) == <<k, 1>>

RECURSIVE SumRatings(_)
SumRatings(s) == IF s = <<>> THEN 0 ELSE s[1].rating + SumRatings(Tail(s))

\* (mutant) the find without its filter: the reviews of every movie
ReviewsOfAnyMovie(revs, m) == revs

\* ReviewAndRating.find({ movie: movieId })
ReviewsOf(revs, m) == SelectSeq(revs, LAMBDA r : r.movie = m)

\* reviews.reduce((sum, review) => sum + review.rating, 0) / reviews.length
AverageRating(rs) == Frac(SumRatings(rs), Len(rs))

(***************************************************************************)
(* Tokens.  A valid token carries the claims signed at login; "invalid"    *)
(* is a token that fails jwt.verify (bad signature or expired).            *)
(***************************************************************************)
NoToken == [kind |-> "none", userId |-> "none", role |-> "none"]
BadToken == [kind |-> "invalid", userId |-> "none", role |-> "none"]
\* jwt.sign({ userId, username, role }) at login, for a stored user
LoginToken(u) == [kind |-> "valid", userId |-> u, role |-> users[u].role]
Tokens == {NoToken, BadToken} \cup {LoginToken(u) : u \in DOMAIN users}

\* Ids a request can name: every id issued so far (the first id when none was:
\* it names no document then), and for path parameters a malformed one.
Issued(n) == 1..(IF n = 0 THEN 1 ELSE n)
MovieIds == {MovieId(n) : n \in Issued(ids.movie)}
PersonIds == {PersonId(n) : n \in Issued(ids.person)}
ListIds == {ListId(n) : n \in Issued(ids.list)}
NewsIds == {NewsId(n) : n \in Issued(ids.news)}
ReviewIds == {ReviewId(n) : n \in Issued(Len(reviews))}
CastInputs == SeqsUpTo(PersonIds, MaxCast)

\* (mutant) a middleware that only checks that a token was sent
authenticateUserUnverified(tok) == tok.kind # "none"

\* middleware/auth.js: TRUE when next() is called
authenticateUser(tok) == tok.kind = "valid"

\* (mutant) the role check left out
isAdminAnyRole(tok) == TRUE

\* req.user.role === 'admin'
isAdmin(tok) == tok.role = "admin"

(***************************************************************************)
(* Responses.  resp is the response to the last request: the route, the    *)
(* caller, the status, a tag for the message, the number of datastore      *)
(* calls the request made, and the document the request named.             *)
(***************************************************************************)
Response(op, tok, status, msg, db, target) ==
    [op |-> op, kind |-> tok.kind, user |-> tok.userId, role |-> tok.role,
     status |-> status, msg |-> msg, db |-> db, target |-> target]

Data == <<users, movies, persons, reviews, lists, news, discussions, ids>>

Init ==
    /\ users = [u \in UserIds |-> registered(u)]
    /\ movies = <<>>
    /\ persons = <<>>
    /\ reviews = <<>>
    /\ lists = <<>>
    /\ news = <<>>
    /\ ids = [movie |-> 0, person |-> 0, list |-> 0, news |-> 0]
    /\ resp = Response("none", NoToken, 0, "", 0, NoId)
    /\ procs = <<>>
    /\ discussions = <<>>

\* (mutant) the answer sent after the Movie the request names was deleted
RejectAfterDelete(op, tok, status, msg, db, target) ==
    /\ resp' = Response(op, tok, status, msg, db, target)
    /\ movies' = [m \in DOMAIN movies \ {target} |-> movies[m]]
    /\ UNCHANGED <<users, persons, reviews, lists, news, ids, procs, discussions>>

Reject(op, tok, status, msg, db, target) ==
    /\ resp' = Response(op, tok, status, msg, db, target)
    /\ UNCHANGED Data
    /\ UNCHANGED procs

\* middleware/auth.js: the 401 answer; next() is not called, so neither the
\* parameters nor the body of the request are read
Unauthorized(op, tok) ==
    Reject(op, tok, 401, IF tok.kind = "none" THEN "token required" ELSE "invalid token", 0, NoId)

(***************************************************************************)
(* Average-rating maintenance.                                             *)
(***************************************************************************)
SetAverage(mvs, m, a) == [mvs EXCEPT ![m].averageRating = a]

\* reviewAndRatingSchema.post('save'): movie.averageRating = mean; movie.save().
\* A movie that is gone makes the hook throw (movie is null).
postSaveThrows(mvs, m) == m \notin DOMAIN mvs
postSave(mvs, revs, m) == SetAverage(mvs, m, AverageRating(ReviewsOf(revs, m)))

\* updateMovieRating: Movie.findByIdAndUpdate(movieId, { averageRating })
updateMovieRating(mvs, revs, m) ==
    IF m \in DOMAIN mvs
    THEN SetAverage(mvs, m, AverageRating(ReviewsOf(revs, m)))
    ELSE mvs

\* (mutant) the duplicate check left out
existingReviewNever(revs, u, m) == FALSE

\* ReviewAndRating.findOne({ user, movie })
existingReview(revs, u, m) == \E i \in 1..Len(revs) : revs[i].user = u /\ revs[i].movie = m

\* the schema validation run by save(): rating in [1, 5], reviewText required
reviewValid(r) == r.rating >= 1 /\ r.rating <= 5 /\ r.reviewText # ""

\* (mutant) the owner check left out
isOwnerAnyCaller(doc, tok) == TRUE

\* the owner check of the review and custom-list handlers
isOwner(doc, tok) == doc.user = tok.userId

(***************************************************************************)
(* POST /api/reviews                                                       *)
(***************************************************************************)
ReviewPost(tok, movie, rating, text) ==
    LET op == "reviewPost"
        new == [user |-> tok.userId, movie |-> movie, rating |-> rating, reviewText |-> text]
        revs2 == Append(reviews, new)
    IN
    IF ~authenticateUser(tok) THEN Unauthorized(op, tok)
    ELSE IF movie = NoId \/ rating = 0 THEN Reject(op, tok, 400, "mandatory", 0, movie)
    ELSE IF rating < 1 \/ rating > 5 THEN Reject(op, tok, 400, "range", 0, movie)
    ELSE IF ~IsValidObjectId(movie) THEN Reject(op, tok, 400, "bad id", 0, movie)
    ELSE IF movie \notin DOMAIN movies THEN Reject(op, tok, 404, "no movie", 1, movie)
    ELSE IF tok.userId \notin DOMAIN users THEN Reject(op, tok, 404, "no user", 2, movie)
    ELSE IF existingReview(reviews, tok.userId, movie)
         THEN Reject(op, tok, 400, "already reviewed", 3, movie)
    ELSE IF ~reviewValid(new) THEN Reject(op, tok, 500, "validation", 3, movie)
    ELSE /\ Len(reviews) < MaxReviews
         /\ reviews' = revs2
         /\ movies' = updateMovieRating(postSave(movies, revs2, movie), revs2, movie)
         /\ resp' = Response(op, tok, 201, "added", 9, movie)
         /\ UNCHANGED <<users, persons, lists, news, ids, procs, discussions>>

(***************************************************************************)
(* PUT /api/reviews/:reviewId                                              *)
(***************************************************************************)
ReviewPut(tok, rid, rating, text) ==
    LET op == "reviewPut"
        i == rid[2]
        old == reviews[i]
        upd == [old EXCEPT !.rating = IF rating # 0 THEN rating ELSE @,
                           !.reviewText = IF text # "" THEN text ELSE @]
        revs2 == [reviews EXCEPT ![i] = upd]
    IN
    IF ~authenticateUser(tok) THEN Unauthorized(op, tok)
    ELSE IF rating = 0 /\ text = "" THEN Reject(op, tok, 400, "mandatory", 0, rid)
    ELSE IF rating # 0 /\ (rating < 1 \/ rating > 5) THEN Reject(op, tok, 400, "range", 0, rid)
    ELSE IF ~IsValidObjectId(rid) THEN Reject(op, tok, 500, "cast", 1, rid)
    ELSE IF i \notin 1..Len(reviews) THEN Reject(op, tok, 404, "no review", 1, rid)
    ELSE IF ~isOwner(old, tok) THEN Reject(op, tok, 403, "not owner", 1, rid)
    ELSE IF postSaveThrows(movies, old.movie)
         THEN /\ reviews' = revs2
              /\ resp' = Response(op, tok, 500, "hook", 3, rid)
              /\ UNCHANGED <<users, movies, persons, lists, news, ids, procs, discussions>>
    ELSE /\ reviews' = revs2
         /\ movies' = updateMovieRating(postSave(movies, revs2, old.movie), revs2, old.movie)
         /\ resp' = Response(op, tok, 200, "updated", 7, rid)
         /\ UNCHANGED <<users, persons, lists, news, ids, procs, discussions>>

(***************************************************************************)
(* Movies and persons (admin panel).                                       *)
(***************************************************************************)
Range(s) == {s[i] : i \in 1..Len(s)}

\* (mutant) every id of the request counted as found
foundInAssumed(coll, idSeq) == Len(idSeq)

\* Person.find({ _id: { $in: ids } }).length
foundIn(coll, idSeq) == Cardinality(Range(idSeq) \cap DOMAIN coll)

\* The releaseDate a body carries, as <<year, month, day>>: it is sent with
\* the title, like the other required fields, and the requests all send this one.
releaseDateSent == <<2024, 6, 15>>

\* new Date(releaseDate).getFullYear(), for a date that is not within a day
\* of a turn of the year (where the server's time zone would matter)
getFullYear(date) == date[1]

\* (mutant) $push with $position: 0, the new entry is put first
RECURSIVE pushFilmographyFirst(_, _, _, _, _)
pushFilmographyFirst(ps, idSeq, movie, role, year) ==
    IF idSeq = <<>> THEN ps
    ELSE LET p == Head(idSeq)
             ps2 == IF p \in DOMAIN ps
                    THEN [ps EXCEPT ![p].filmography =
                              <<[movie |-> movie, role |-> role, year |-> year]>> \o @]
                    ELSE ps
         IN pushFilmographyFirst(ps2, Tail(idSeq), movie, role, year)

\* Person.findByIdAndUpdate(id, { $push: { filmography: { movie, role, year } } }),
\* for each id of the array in order
RECURSIVE pushFilmography(_, _, _, _, _)
pushFilmography(ps, idSeq, movie, role, year) ==
    IF idSeq = <<>> THEN ps
    ELSE LET p == Head(idSeq)
             ps2 == IF p \in DOMAIN ps
                    THEN [ps EXCEPT ![p].filmography =
                              Append(@, [movie |-> movie, role |-> role, year |-> year])]
                    ELSE ps
         IN pushFilmography(ps2, Tail(idSeq), movie, role, year)

\* the unique index on Movie.title
titleTaken(mvs, title, self) == \E m \in DOMAIN mvs : m # self /\ mvs[m].title = title

\* movieSchema: averageRating { default: 0, min: 0, max: 5 }
averageRatingValid(a) == a[1] >= 0 /\ a[1] <= 5 * a[2]

\* the averageRating a new Movie document gets from the request body
newMovieAverage(avg) == IF avg = -1 THEN Num(0) ELSE Num(avg)

\* POST /api/moviesCRUD/add
\* The other required fields (genre, releaseDate, runtime, ageRating,
\* countryOfOrigin, language) are sent with the title, or left out with it.
MovieAdd(tok, title, directors, actors, avg) ==
    LET op == "movieAdd"
        id == MovieId(ids.movie + 1)
        new == [title |-> title, averageRating |-> newMovieAverage(avg),
                releaseDate |-> releaseDateSent,
                directors |-> directors, actors |-> actors]
        year == getFullYear(releaseDateSent)
    IN
    IF ~authenticateUser(tok) THEN Unauthorized(op, tok)
    ELSE IF ~isAdmin(tok) THEN Reject(op, tok, 403, "not admin", 0, NoId)
    ELSE IF title = "" \/ directors = AbsentArr \/ actors = AbsentArr
         THEN Reject(op, tok, 400, "required", 0, NoId)
    ELSE IF BadId \in Range(directors) THEN Reject(op, tok, 500, "cast", 1, NoId)
    ELSE IF foundIn(persons, directors) # Len(directors)
         THEN Reject(op, tok, 400, "no director", 1, NoId)
    ELSE IF BadId \in Range(actors) THEN Reject(op, tok, 500, "cast", 2, NoId)
    ELSE IF foundIn(persons, actors) # Len(actors)
         THEN Reject(op, tok, 400, "no actor", 2, NoId)
    ELSE IF ~averageRatingValid(new.averageRating)
         THEN Reject(op, tok, 500, "validation", 2, NoId)
    ELSE IF titleTaken(movies, title, id) THEN Reject(op, tok, 500, "duplicate", 3, NoId)
    ELSE /\ ids.movie < MaxMovies
         /\ movies' = (id :> new) @@ movies
         /\ ids' = [ids EXCEPT !.movie = @ + 1]
         /\ persons' = pushFilmography(pushFilmography(persons, directors, id, "Director", year),
                                       actors, id, "Actor", year)
         /\ resp' = Response(op, tok, 201, "added", 3 + Len(directors) + Len(actors), id)
         /\ UNCHANGED <<users, reviews, lists, news, procs, discussions>>

\* updateFields.directors || []
orEmpty(arr) == IF arr = AbsentArr THEN <<>> ELSE arr

\* $set of the scalar fields of the body, $push of its array fields
applyMovieUpdate(mv, body) ==
    [title |-> IF body.title # "" THEN body.title ELSE mv.title,
     averageRating |-> IF body.averageRating # -1 THEN Num(body.averageRating)
                       ELSE mv.averageRating,
     releaseDate |-> IF body.title # "" THEN releaseDateSent ELSE mv.releaseDate,
     directors |-> mv.directors \o orEmpty(body.directors),
     actors |-> mv.actors \o orEmpty(body.actors)]

MovieBodies ==
    [title : Titles, directors : CastInputs \cup {AbsentArr},
     actors : CastInputs \cup {AbsentArr}, averageRating : AvgInputs]

\* Object.keys(updateFields).length === 0
emptyBody(body) ==
    /\ body.title = ""
    /\ body.directors = AbsentArr
    /\ body.actors = AbsentArr
    /\ body.averageRating = -1

\* PUT /api/moviesCRUD/:id
MovieUpdate(tok, id, body) ==
    LET op == "moviePut"
        directors == orEmpty(body.directors)
        actors == orEmpty(body.actors)
        upd == applyMovieUpdate(movies[id], body)
        year == getFullYear(upd.releaseDate)
    IN
    IF ~authenticateUser(tok) THEN Unauthorized(op, tok)
    ELSE IF ~isAdmin(tok) THEN Reject(op, tok, 403, "not admin", 0, id)
    ELSE IF ~IsValidObjectId(id) THEN Reject(op, tok, 400, "bad id", 0, id)
    ELSE IF emptyBody(body) THEN Reject(op, tok, 400, "empty", 0, id)
    ELSE IF BadId \in Range(directors) THEN Reject(op, tok, 400, "bad director id", 0, id)
    ELSE IF BadId \in Range(actors) THEN Reject(op, tok, 400, "bad actor id", 0, id)
    ELSE IF foundIn(persons, directors) # Len(directors)
         THEN Reject(op, tok, 400, "no director", 1, id)
    ELSE IF foundIn(persons, actors) # Len(actors)
         THEN Reject(op, tok, 400, "no actor", 2, id)
    ELSE IF id \notin DOMAIN movies THEN Reject(op, tok, 404, "no movie", 3, id)
    ELSE IF Range(directors) \cap Range(movies[id].directors) # {}
         THEN Reject(op, tok, 400, "director already added", 3, id)
    ELSE IF Range(actors) \cap Range(movies[id].actors) # {}
         THEN Reject(op, tok, 400, "actor already added", 3, id)
    ELSE IF titleTaken(movies, upd.title, id) THEN Reject(op, tok, 500, "duplicate", 4, id)
    ELSE /\ movies' = [movies EXCEPT ![id] = upd]
         /\ persons' = pushFilmography(pushFilmography(persons, directors, id, "Director", year),
                                       actors, id, "Actor", year)
         /\ resp' = Response(op, tok, 200, "updated", 4 + Len(directors) + Len(actors), id)
         /\ UNCHANGED <<users, reviews, lists, news, ids, procs, discussions>>

\* (mutant) deleteMany({}): every Movie document is removed
deleteEveryMovie(mvs, id) == <<>>

\* Movie.findByIdAndDelete(id): the collection without that document
findByIdAndDelete(mvs, id) == [m \in DOMAIN mvs \ {id} |-> mvs[m]]

\* DELETE /api/moviesCRUD/:id
MovieDelete(tok, id) ==
    LET op == "movieDelete" IN
    IF ~authenticateUser(tok) THEN Unauthorized(op, tok)
    ELSE IF ~isAdmin(tok) THEN Reject(op, tok, 403, "not admin", 0, id)
    ELSE IF ~IsValidObjectId(id) THEN Reject(op, tok, 400, "bad id", 0, id)
    ELSE IF id \notin DOMAIN movies THEN Reject(op, tok, 404, "no movie", 1, id)
    ELSE /\ movies' = findByIdAndDelete(movies, id)
         /\ resp' = Response(op, tok, 200, "deleted", 1, id)
         /\ UNCHANGED <<users, persons, reviews, lists, news, ids, procs, discussions>>

PersonTypes == {"", "actor", "crew", "extra"}

\* POST /api/moviesCRUD/addPerson
PersonAdd(tok, named, type) ==
    LET op == "personAdd"
        id == PersonId(ids.person + 1)
    IN
    IF ~authenticateUser(tok) THEN Unauthorized(op, tok)
    ELSE IF ~isAdmin(tok) THEN Reject(op, tok, 403, "not admin", 0, NoId)
    ELSE IF ~named \/ type = "" THEN Reject(op, tok, 400, "required", 0, NoId)
    ELSE IF type \notin {"actor", "director", "crew"} THEN Reject(op, tok, 400, "type", 0, NoId)
    ELSE /\ ids.person < MaxPersons
         /\ persons' = (id :> [type |-> type, filmography |-> <<>>]) @@ persons
         /\ ids' = [ids EXCEPT !.person = @ + 1]
         /\ resp' = Response(op, tok, 201, "added", 1, id)
         /\ UNCHANGED <<users, movies, reviews, lists, news, procs, discussions>>

(***************************************************************************)
(* News articles.                                                          *)
(***************************************************************************)
Categories == {"", "Movies", "Gossip"}
validCategories == {"Movies", "Actors", "Projects", "Industry", "Drama"}
RelatedMovieInputs == SeqsUpTo(MovieIds, MaxCast) \cup {AbsentArr}
RelatedActorInputs == SeqsUpTo(PersonIds, MaxCast) \cup {AbsentArr}

\* text: title, description and content are all supplied (as strings), or none is
NewsBodies ==
    [text : BOOLEAN, category : Categories,
     relatedMovies : RelatedMovieInputs, relatedActors : RelatedActorInputs]

\* relatedMovies.filter(id => !existingMovieIds.includes(id.toString()))
invalidIds(coll, idSeq) == SelectSeq(idSeq, LAMBDA id : id \notin DOMAIN coll)

\* checkObjectIdsExist: the ids that are not in the Person collection
checkObjectIdsExist(idSeq) == invalidIds(persons, idSeq)

\* POST /api/news/add-news
NewsAdd(tok, body) ==
    LET op == "newsAdd"
        id == NewsId(ids.news + 1)
        hasMovies == body.relatedMovies # AbsentArr
        hasActors == body.relatedActors # AbsentArr
        new == [text |-> "n", category |-> body.category,
                relatedMovies |-> orEmpty(body.relatedMovies),
                relatedActors |-> orEmpty(body.relatedActors)]
        dbM == IF hasMovies THEN 1 ELSE 0
        dbA == IF hasActors THEN 1 ELSE 0
    IN
    IF ~authenticateUser(tok) THEN Unauthorized(op, tok)
    ELSE IF ~isAdmin(tok) THEN Reject(op, tok, 403, "not admin", 0, NoId)
    ELSE IF ~body.text THEN Reject(op, tok, 400, "text", 0, NoId)
    ELSE IF body.category \notin validCategories THEN Reject(op, tok, 400, "category", 0, NoId)
    ELSE IF hasMovies /\ BadId \in Range(body.relatedMovies)
         THEN Reject(op, tok, 400, "bad movie id", 0, NoId)
    ELSE IF hasMovies /\ invalidIds(movies, body.relatedMovies) # <<>>
         THEN Reject(op, tok, 400, "no movie", dbM, NoId)
    ELSE IF hasActors /\ BadId \in Range(body.relatedActors)
         THEN Reject(op, tok, 400, "bad actor id", dbM, NoId)
    ELSE IF hasActors /\ invalidIds(persons, body.relatedActors) # <<>>
         THEN Reject(op, tok, 400, "no actor", dbM + dbA, NoId)
    ELSE /\ ids.news < MaxNews
         /\ news' = (id :> new) @@ news
         /\ ids' = [ids EXCEPT !.news = @ + 1]
         /\ resp' = Response(op, tok, 201, "added", dbM + dbA + 1, id)
         /\ UNCHANGED <<users, movies, persons, reviews, lists, procs, discussions>>

\* if (field) newsArticle.field = field, for each field of the body
applyNewsUpdate(article, body) ==
    [text |-> IF body.text THEN "u" ELSE article.text,
     category |-> IF body.category # "" THEN body.category ELSE article.category,
     relatedMovies |-> IF body.relatedMovies # AbsentArr THEN body.relatedMovies
                       ELSE article.relatedMovies,
     relatedActors |-> IF body.relatedActors # AbsentArr THEN body.relatedActors
                       ELSE article.relatedActors]

\* PUT /api/news/update-news/:id
\* A malformed id makes new ObjectId(id) throw outside any try: the request
\* gets no response (status 0).
NewsUpdate(tok, id, body) ==
    LET op == "newsPut"
        hasMovies == body.relatedMovies # AbsentArr
        hasActors == body.relatedActors # AbsentArr
        dbM == IF hasMovies THEN 1 ELSE 0
        dbA == IF hasActors THEN 1 ELSE 0
    IN
    IF ~authenticateUser(tok) THEN Unauthorized(op, tok)
    ELSE IF ~isAdmin(tok) THEN Reject(op, tok, 403, "not admin", 0, id)
    ELSE IF ~IsValidObjectId(id) THEN Reject(op, tok, 0, "no response", 0, id)
    ELSE IF id \notin DOMAIN news THEN Reject(op, tok, 404, "no article", 1, id)
    ELSE IF body.category # "" /\ body.category \notin validCategories
         THEN Reject(op, tok, 400, "category", 1, id)
    ELSE IF hasMovies /\ BadId \in Range(body.relatedMovies)
         THEN Reject(op, tok, 400, "bad movie id", 1, id)
    ELSE IF hasMovies /\ checkObjectIdsExist(body.relatedMovies) # <<>>
         THEN Reject(op, tok, 400, "no movie", 1 + dbM, id)
    ELSE IF hasActors /\ BadId \in Range(body.relatedActors)
         THEN Reject(op, tok, 400, "bad actor id", 1 + dbM, id)
    ELSE IF ~body.text /\ body.category = "" /\ ~hasMovies /\ ~hasActors
         THEN Reject(op, tok, 400, "empty", 1 + dbM, id)
    ELSE IF hasActors /\ checkObjectIdsExist(body.relatedActors) # <<>>
         THEN Reject(op, tok, 400, "no actor", 1 + dbM + dbA, id)
    ELSE /\ news' = [news EXCEPT ![id] = applyNewsUpdate(@, body)]
         /\ resp' = Response(op, tok, 200, "updated", 2 + dbM + dbA, id)
         /\ UNCHANGED <<users, movies, persons, reviews, lists, ids, procs, discussions>>

(***************************************************************************)
(* Custom lists.                                                           *)
(***************************************************************************)
\* CustomList.findOne({ user, name })
existingList(ls, u, name) == \E l \in DOMAIN ls : ls[l].user = u /\ ls[l].name = name

\* POST /api/customlist/create-new
ListCreate(tok, name, description) ==
    LET op == "listCreate"
        id == ListId(ids.list + 1)
        new == [user |-> tok.userId, name |-> name, description |-> description, movies |-> <<>>]
    IN
    IF ~authenticateUser(tok) THEN Unauthorized(op, tok)
    ELSE IF name = "" THEN Reject(op, tok, 400, "name", 0, NoId)
    ELSE IF existingList(lists, tok.userId, name) THEN Reject(op, tok, 400, "duplicate", 1, NoId)
    ELSE /\ ids.list < MaxLists
         /\ lists' = (id :> new) @@ lists
         /\ ids' = [ids EXCEPT !.list = @ + 1]
         /\ resp' = Response(op, tok, 201, "created", 2, id)
         /\ UNCHANGED <<users, movies, persons, reviews, news, procs, discussions>>

\* DELETE /api/customlist/delete/:listId
ListDelete(tok, id) ==
    LET op == "listDelete" IN
    IF ~authenticateUser(tok) THEN Unauthorized(op, tok)
    ELSE IF ~IsValidObjectId(id) THEN Reject(op, tok, 500, "cast", 1, id)
    ELSE IF id \notin DOMAIN lists THEN Reject(op, tok, 404, "no list", 1, id)
    ELSE IF ~isOwner(lists[id], tok) THEN Reject(op, tok, 403, "not owner", 1, id)
    ELSE /\ lists' = [l \in DOMAIN lists \ {id} |-> lists[l]]
         /\ resp' = Response(op, tok, 200, "deleted", 2, id)
         /\ UNCHANGED <<users, movies, persons, reviews, news, ids, procs, discussions>>

\* POST /api/customlist/:listId/add-movie
ListAddMovie(tok, id, movieId) ==
    LET op == "listAddMovie" IN
    IF ~authenticateUser(tok) THEN Unauthorized(op, tok)
    ELSE IF movieId = NoId THEN Reject(op, tok, 400, "movie id", 0, id)
    ELSE IF ~IsValidObjectId(movieId) THEN Reject(op, tok, 500, "cast", 1, id)
    ELSE IF movieId \notin DOMAIN movies THEN Reject(op, tok, 404, "no movie", 1, id)
    ELSE IF ~IsValidObjectId(id) THEN Reject(op, tok, 500, "cast", 2, id)
    ELSE IF id \notin DOMAIN lists THEN Reject(op, tok, 404, "no list", 2, id)
    ELSE IF ~isOwner(lists[id], tok) THEN Reject(op, tok, 403, "not owner", 2, id)
    ELSE IF movieId \in Range(lists[id].movies) THEN Reject(op, tok, 400, "already in list", 2, id)
    ELSE /\ lists' = [lists EXCEPT ![id].movies = Append(@, movieId)]
         /\ resp' = Response(op, tok, 200, "movie added", 3, id)
         /\ UNCHANGED <<users, movies, persons, reviews, news, ids, procs, discussions>>

\* PUT /api/customlist/:listId/update
ListUpdate(tok, id, name, description) ==
    LET op == "listUpdate" IN
    IF ~authenticateUser(tok) THEN Unauthorized(op, tok)
    ELSE IF name = "" /\ description = "" THEN Reject(op, tok, 400, "empty", 0, id)
    ELSE IF ~IsValidObjectId(id) THEN Reject(op, tok, 500, "cast", 1, id)
    ELSE IF id \notin DOMAIN lists THEN Reject(op, tok, 404, "no list", 1, id)
    ELSE IF ~isOwner(lists[id], tok) THEN Reject(op, tok, 403, "not owner", 1, id)
    ELSE /\ lists' = [lists EXCEPT ![id].name = IF name # "" THEN name ELSE @,
                                   ![id].description = IF description # "" THEN description ELSE @]
         /\ resp' = Response(op, tok, 200, "updated", 2, id)
         /\ UNCHANGED <<users, movies, persons, reviews, news, ids, procs, discussions>>

\* customList.movies.indexOf(movieId), 0 when absent
indexOf(s, x) == IF x \in Range(s) THEN CHOOSE i \in 1..Len(s) : s[i] = x /\ \A j \in 1..(i - 1) : s[j] # x ELSE 0

\* (mutant) splice(movieIndex): everything from the index on is removed
spliceToEnd(s, i) == SubSeq(s, 1, i - 1)

\* customList.movies.splice(movieIndex, 1)
splice(s, i) == SubSeq(s, 1, i - 1) \o SubSeq(s, i + 1, Len(s))

\* DELETE /api/customlist/:listId/remove-movie
ListRemoveMovie(tok, id, movieId) ==
    LET op == "listRemoveMovie" IN
    IF ~authenticateUser(tok) THEN Unauthorized(op, tok)
    ELSE IF movieId = NoId THEN Reject(op, tok, 400, "movie id", 0, id)
    ELSE IF ~IsValidObjectId(id) THEN Reject(op, tok, 500, "cast", 1, id)
    ELSE IF id \notin DOMAIN lists THEN Reject(op, tok, 404, "no list", 1, id)
    ELSE IF ~isOwner(lists[id], tok) THEN Reject(op, tok, 403, "not owner", 1, id)
    ELSE IF indexOf(lists[id].movies, movieId) = 0 THEN Reject(op, tok, 404, "not in list", 1, id)
    ELSE /\ lists' = [lists EXCEPT ![id].movies = splice(@, indexOf(@, movieId))]
         /\ resp' = Response(op, tok, 200, "movie removed", 2, id)
         /\ UNCHANGED <<users, movies, persons, reviews, news, ids, procs, discussions>>

(***************************************************************************)
(* Wishlists.  The wishlist is an array of movie ids on the User document. *)
(***************************************************************************)
\* POST /api/wishlist/add
\* The handler loads the User only: the Movie collection is never queried.
\* A malformed id cannot be cast when it is pushed onto the array.
WishlistAdd(tok, movieId) ==
    LET op == "wishlistAdd" IN
    IF ~authenticateUser(tok) THEN Unauthorized(op, tok)
    ELSE IF movieId = NoId THEN Reject(op, tok, 400, "movie id", 0, movieId)
    ELSE IF movieId \in Range(users[tok.userId].wishlist)
         THEN Reject(op, tok, 400, "already in wishlist", 1, movieId)
    ELSE IF ~IsValidObjectId(movieId) THEN Reject(op, tok, 500, "cast", 1, movieId)
    ELSE /\ users' = [users EXCEPT ![tok.userId].wishlist = Append(@, movieId)]
         /\ resp' = Response(op, tok, 200, "movie added", 2, movieId)
         /\ UNCHANGED <<movies, persons, reviews, lists, news, ids, procs, discussions>>

\* DELETE /api/wishlist/remove
WishlistRemove(tok, movieId) ==
    LET op == "wishlistRemove" IN
    IF ~authenticateUser(tok) THEN Unauthorized(op, tok)
    ELSE IF movieId = NoId THEN Reject(op, tok, 400, "movie id", 0, movieId)
    ELSE IF indexOf(users[tok.userId].wishlist, movieId) = 0
         THEN Reject(op, tok, 400, "not in wishlist", 1, movieId)
    ELSE /\ users' = [users EXCEPT ![tok.userId].wishlist = splice(@, indexOf(@, movieId))]
         /\ resp' = Response(op, tok, 200, "movie removed", 2, movieId)
         /\ UNCHANGED <<movies, persons, reviews, lists, news, ids, procs, discussions>>

(***************************************************************************)
(* Requests.  A request that is rejected before its parameters and body    *)
(* are read is sent once, with one body: the others give the same answer.  *)
(***************************************************************************)
Inputs(read, S) == IF read THEN S ELSE {CHOOSE x \in S : TRUE}
adminGate(tok) == authenticateUser(tok) /\ isAdmin(tok)

ReviewPostStep ==
    \E tok \in Tokens :
        \E in \in Inputs(authenticateUser(tok),
                         [movie : MovieIds \cup {BadId, NoId}, rating : RatingInputs, text : TextInputs]) :
            ReviewPost(tok, in.movie, in.rating, in.text)

ReviewPutStep ==
    \E tok \in Tokens :
        \E in \in Inputs(authenticateUser(tok),
                         [rid : ReviewIds \cup {BadId}, rating : RatingInputs, text : TextInputs]) :
            ReviewPut(tok, in.rid, in.rating, in.text)

MovieAddStep ==
    \E tok \in Tokens :
        \E body \in Inputs(adminGate(tok), MovieBodies) :
            MovieAdd(tok, body.title, body.directors, body.actors, body.averageRating)

MovieUpdateStep ==
    \E tok \in Tokens :
        \E in \in Inputs(adminGate(tok), [id : MovieIds \cup {BadId}, body : MovieBodies]) :
            MovieUpdate(tok, in.id, in.body)

MovieDeleteStep ==
    \E tok \in Tokens :
        \E id \in Inputs(adminGate(tok), MovieIds \cup {BadId}) : MovieDelete(tok, id)

PersonAddStep ==
    \E tok \in Tokens :
        \E in \in Inputs(adminGate(tok), [named : BOOLEAN, type : PersonTypes]) :
            PersonAdd(tok, in.named, in.type)

NewsAddStep ==
    \E tok \in Tokens :
        \E body \in Inputs(adminGate(tok), NewsBodies) : NewsAdd(tok, body)

NewsUpdateStep ==
    \E tok \in Tokens :
        \E in \in Inputs(adminGate(tok), [id : NewsIds \cup {BadId}, body : NewsBodies]) :
            NewsUpdate(tok, in.id, in.body)

ListCreateStep ==
    \E tok \in Tokens :
        \E in \in Inputs(authenticateUser(tok), [name : ListNames, description : Descriptions]) :
            ListCreate(tok, in.name, in.description)

ListDeleteStep ==
    \E tok \in Tokens :
        \E id \in Inputs(authenticateUser(tok), ListIds \cup {BadId}) : ListDelete(tok, id)

ListAddMovieStep ==
    \E tok \in Tokens :
        \E in \in Inputs(authenticateUser(tok),
                         [id : ListIds \cup {BadId}, movie : MovieIds \cup {BadId, NoId}]) :
            ListAddMovie(tok, in.id, in.movie)

ListUpdateStep ==
    \E tok \in Tokens :
        \E in \in Inputs(authenticateUser(tok),
                         [id : ListIds \cup {BadId}, name : ListNames, description : Descriptions]) :
            ListUpdate(tok, in.id, in.name, in.description)

ListRemoveMovieStep ==
    \E tok \in Tokens :
        \E in \in Inputs(authenticateUser(tok),
                         [id : ListIds \cup {BadId}, movie : MovieIds \cup {BadId, NoId}]) :
            ListRemoveMovie(tok, in.id, in.movie)

WishlistAddStep ==
    \E tok \in Tokens :
        \E movie \in Inputs(authenticateUser(tok), MovieIds \cup {BadId, NoId}) :
            WishlistAdd(tok, movie)

WishlistRemoveStep ==
    \E tok \in Tokens :
        \E movie \in Inputs(authenticateUser(tok), MovieIds \cup {BadId, NoId}) :
            WishlistRemove(tok, movie)

(***************************************************************************)
(* Specifications, requests handled one at a time.                         *)
(***************************************************************************)
\* the admin panel (movies, persons, news), from an empty catalogue
Next ==
    \/ MovieAddStep
    \/ MovieUpdateStep
    \/ MovieDeleteStep
    \/ PersonAddStep
    \/ NewsAddStep
    \/ NewsUpdateStep

Spec == Init /\ [][Next]_vars

\* A catalogue of two movies without cast, as two POST /api/moviesCRUD/add leave it.
plainMovie(title) ==
    [title |-> title, averageRating |-> Num(0), releaseDate |-> releaseDateSent,
     directors |-> <<>>, actors |-> <<>>]

InitCatalog ==
    /\ users = [u \in UserIds |-> registered(u)]
    /\ movies = (MovieId(1) :> plainMovie("t1")) @@ (MovieId(2) :> plainMovie("t2"))
    /\ persons = <<>>
    /\ reviews = <<>>
    /\ lists = <<>>
    /\ news = <<>>
    /\ ids = [movie |-> 2, person |-> 0, list |-> 0, news |-> 0]
    /\ resp = Response("none", NoToken, 0, "", 0, NoId)
    /\ procs = <<>>
    /\ discussions = <<>>

\* reviews, over a catalogue from which the admin deletes
NextReviews ==
    \/ ReviewPostStep
    \/ ReviewPutStep
    \/ MovieDeleteStep

SpecReviews == InitCatalog /\ [][NextReviews]_vars

\* The catalogue of two movies after one custom list was created and deleted
\* again: its id is spent, the collection is empty.
InitLists ==
    /\ users = [u \in UserIds |-> registered(u)]
    /\ movies = (MovieId(1) :> plainMovie("t1")) @@ (MovieId(2) :> plainMovie("t2"))
    /\ persons = <<>>
    /\ reviews = <<>>
    /\ lists = <<>>
    /\ news = <<>>
    /\ ids = [movie |-> 2, person |-> 0, list |-> 1, news |-> 0]
    /\ resp = Response("none", NoToken, 0, "", 0, NoId)
    /\ procs = <<>>
    /\ discussions = <<>>

\* custom lists, over a catalogue from which the admin deletes
NextLists ==
    \/ ListCreateStep
    \/ ListDeleteStep
    \/ ListAddMovieStep
    \/ ListUpdateStep
    \/ ListRemoveMovieStep
    \/ MovieDeleteStep

SpecLists == InitLists /\ [][NextLists]_vars

\* A catalogue in use: movie 1 has a director, two reviews, and is in a
\* custom list and in a wishlist.
InitReferenced ==
    /\ users = [u \in UserIds |->
                   [registered(u) EXCEPT !.wishlist = IF u = "u1" THEN <<MovieId(1)>> ELSE <<>>]]
    /\ movies = (MovieId(1) :> [plainMovie("t1") EXCEPT !.averageRating = Frac(3, 2),
                                                         !.directors = <<PersonId(1)>>])
                @@ (MovieId(2) :> plainMovie("t2"))
    /\ persons = (PersonId(1) :>
                    [type |-> "director",
                     filmography |-> <<[movie |-> MovieId(1), role |-> "Director",
                                        year |-> getFullYear(releaseDateSent)]>>])
    /\ reviews = <<[user |-> "u1", movie |-> MovieId(1), rating |-> 1, reviewText |-> "first"],
                   [user |-> "a1", movie |-> MovieId(1), rating |-> 2, reviewText |-> "first"]>>
    /\ lists = (ListId(1) :> [user |-> "u1", name |-> "a", description |-> "", movies |-> <<MovieId(1)>>])
    /\ news = <<>>
    /\ ids = [movie |-> 2, person |-> 1, list |-> 1, news |-> 0]
    /\ resp = Response("none", NoToken, 0, "", 0, NoId)
    /\ procs = <<>>
    /\ discussions = <<>>

\* A catalogue of one movie in use: it has a director and one review, and is
\* in a custom list and in a wishlist.
InitRejects ==
    /\ users = [u \in UserIds |->
                   [registered(u) EXCEPT !.wishlist = IF u = "u1" THEN <<MovieId(1)>> ELSE <<>>]]
    /\ movies = (MovieId(1) :> [plainMovie("t1") EXCEPT !.averageRating = Num(1),
                                                         !.directors = <<PersonId(1)>>])
    /\ persons = (PersonId(1) :>
                    [type |-> "director",
                     filmography |-> <<[movie |-> MovieId(1), role |-> "Director",
                                        year |-> getFullYear(releaseDateSent)]>>])
    /\ reviews = <<[user |-> "u1", movie |-> MovieId(1), rating |-> 1, reviewText |-> "first"]>>
    /\ lists = (ListId(1) :> [user |-> "u1", name |-> "a", description |-> "", movies |-> <<MovieId(1)>>])
    /\ news = <<>>
    /\ ids = [movie |-> 1, person |-> 1, list |-> 1, news |-> 0]
    /\ resp = Response("none", NoToken, 0, "", 0, NoId)
    /\ procs = <<>>
    /\ discussions = <<>>

\* requests of every kind of caller to the movie, review, news and list routes
NextRejects ==
    \/ MovieUpdateStep
    \/ ReviewPostStep
    \/ NewsAddStep
    \/ ListRemoveMovieStep

SpecRejects == InitRejects /\ [][NextRejects]_vars

\* wishlists, over a catalogue from which the admin deletes
NextWishlist ==
    \/ WishlistAddStep
    \/ WishlistRemoveStep
    \/ MovieDeleteStep

SpecWishlist == InitReferenced /\ [][NextWishlist]_vars

\* movies and the persons they name, from an empty catalogue
NextMovies ==
    \/ PersonAddStep
    \/ MovieAddStep
    \/ MovieUpdateStep

SpecMovies == Init /\ [][NextMovies]_vars

\* Two persons, as two POST /api/persons leave them, and either no movie yet
\* or one movie without cast that was added with an earlier release date.
InitCast ==
    /\ users = [u \in UserIds |-> registered(u)]
    /\ \E n \in 0..1 :
           /\ movies = [m \in {MovieId(i) : i \in 1..n} |->
                            [plainMovie("t1") EXCEPT !.releaseDate = <<2023, 6, 15>>]]
           /\ ids = [movie |-> n, person |-> 2, list |-> 0, news |-> 0]
    /\ persons = [p \in {PersonId(1), PersonId(2)} |-> [type |-> "actor", filmography |-> <<>>]]
    /\ reviews = <<>>
    /\ lists = <<>>
    /\ news = <<>>
    /\ resp = Response("none", NoToken, 0, "", 0, NoId)
    /\ procs = <<>>
    /\ discussions = <<>>

\* the cast of a movie: it is added, then directors and actors are attached
NextCast ==
    \/ MovieAddStep
    \/ MovieUpdateStep

SpecCast == InitCast /\ [][NextCast]_vars

\* the names and descriptions of custom lists: create and update only
NextNames ==
    \/ ListCreateStep
    \/ ListUpdateStep

SpecNames == InitCatalog /\ [][NextNames]_vars

(***************************************************************************)
(* Concurrent review requests.  Each request slot handles one request; a   *)
(* handler runs up to its next datastore call (await), the call itself is  *)
(* atomic, and the slots interleave between calls.  Requests that fail the *)
(* synchronous validation never reach the datastore, so the bodies sent    *)
(* here are well-formed.                                                   *)
(***************************************************************************)
MaxRequests == 2
Slots == 1..MaxRequests

idle ==
    [pc |-> "idle", op |-> "none", user |-> "none", movie |-> NoId, rating |-> 0,
     text |-> "", rid |-> 0, loaded |-> NaN, avg |-> NaN, status |-> 0]

InitConc ==
    /\ users = [u \in UserIds |-> registered(u)]
    /\ movies = (MovieId(1) :> plainMovie("t1")) @@ (MovieId(2) :> plainMovie("t2"))
    /\ persons = <<>>
    /\ reviews = <<>>
    /\ lists = <<>>
    /\ news = <<>>
    /\ ids = [movie |-> 2, person |-> 0, list |-> 0, news |-> 0]
    /\ resp = Response("none", NoToken, 0, "", 0, NoId)
    /\ procs = [p \in Slots |-> idle]
    /\ discussions = <<>>

ConcRatings == {1, 2}
Frame == <<users, persons, lists, news, discussions, ids, resp>>
goto(p, pc) == procs' = [procs EXCEPT ![p].pc = pc]
finish(p, status) == procs' = [procs EXCEPT ![p].pc = "done", ![p].status = status]

\* POST /api/reviews up to Movie.findById: the middleware and the validation
StartPost(p, tok, movie, rating, text) ==
    /\ procs[p].pc = "idle"
    /\ procs' = [procs EXCEPT ![p] =
            IF ~authenticateUser(tok) THEN [idle EXCEPT !.pc = "done", !.op = "reviewPost", !.status = 401]
            ELSE IF movie = NoId \/ rating = 0 \/ rating < 1 \/ rating > 5 \/ ~IsValidObjectId(movie)
                 THEN [idle EXCEPT !.pc = "done", !.op = "reviewPost", !.user = tok.userId, !.status = 400]
            ELSE [idle EXCEPT !.pc = "findMovie", !.op = "reviewPost", !.user = tok.userId,
                              !.movie = movie, !.rating = rating, !.text = text]]
    /\ UNCHANGED <<movies, reviews, Frame>>

\* await Movie.findById(movie)
PostFindMovie(p) ==
    /\ procs[p].pc = "findMovie"
    /\ IF procs[p].movie \in DOMAIN movies THEN goto(p, "findUser") ELSE finish(p, 404)
    /\ UNCHANGED <<movies, reviews, Frame>>

\* await User.findById(user)
PostFindUser(p) ==
    /\ procs[p].pc = "findUser"
    /\ IF procs[p].user \in DOMAIN users THEN goto(p, "findOne") ELSE finish(p, 404)
    /\ UNCHANGED <<movies, reviews, Frame>>

\* await ReviewAndRating.findOne({ user, movie })
PostFindOne(p) ==
    /\ procs[p].pc = "findOne"
    /\ IF existingReview(reviews, procs[p].user, procs[p].movie) THEN finish(p, 400) ELSE goto(p, "save")
    /\ UNCHANGED <<movies, reviews, Frame>>

\* await newReview.save(): the insert
PostSave(p) ==
    LET new == [user |-> procs[p].user, movie |-> procs[p].movie,
                rating |-> procs[p].rating, reviewText |-> procs[p].text]
    IN
    /\ procs[p].pc = "save"
    /\ IF ~reviewValid(new)
       THEN finish(p, 500) /\ UNCHANGED reviews
       ELSE /\ Len(reviews) < MaxReviews
            /\ reviews' = Append(reviews, new)
            /\ goto(p, "hookMovie")
    /\ UNCHANGED <<movies, Frame>>

\* PUT /api/reviews/:reviewId up to ReviewAndRating.findById
StartPut(p, tok, rid, rating, text) ==
    /\ procs[p].pc = "idle"
    /\ procs' = [procs EXCEPT ![p] =
            IF ~authenticateUser(tok) THEN [idle EXCEPT !.pc = "done", !.op = "reviewPut", !.status = 401]
            ELSE IF (rating = 0 /\ text = "") \/ (rating # 0 /\ (rating < 1 \/ rating > 5))
                 THEN [idle EXCEPT !.pc = "done", !.op = "reviewPut", !.user = tok.userId, !.status = 400]
            ELSE [idle EXCEPT !.pc = "findReview", !.op = "reviewPut", !.user = tok.userId,
                              !.rid = rid[2], !.rating = rating, !.text = text]]
    /\ UNCHANGED <<movies, reviews, Frame>>

\* await ReviewAndRating.findById(reviewId), the owner check, the assignments;
\* loadedRating is the rating of the document as it was read
PutFindReview(p) ==
    LET i == procs[p].rid IN
    /\ procs[p].pc = "findReview"
    /\ IF i \notin 1..Len(reviews) THEN finish(p, 404)
       ELSE IF ~isOwner(reviews[i], [userId |-> procs[p].user]) THEN finish(p, 403)
       ELSE procs' = [procs EXCEPT ![p].pc = "putSave", ![p].movie = reviews[i].movie,
                                   ![p].loaded = Num(reviews[i].rating)]
    /\ UNCHANGED <<movies, reviews, Frame>>

\* await review.save(): $set of the paths the handler modified
PutSave(p) ==
    LET i == procs[p].rid
        setRating == procs[p].rating # 0 /\ Num(procs[p].rating) # procs[p].loaded
    IN
    /\ procs[p].pc = "putSave"
    /\ reviews' = [reviews EXCEPT ![i].rating = IF setRating THEN procs[p].rating ELSE @,
                                  ![i].reviewText = IF procs[p].text # "" THEN procs[p].text ELSE @]
    /\ goto(p, "hookMovie")
    /\ UNCHANGED <<movies, Frame>>

\* post('save'): await Movie.findById(this.movie)
HookFindMovie(p) ==
    /\ procs[p].pc = "hookMovie"
    /\ IF postSaveThrows(movies, procs[p].movie) THEN finish(p, 500)
       ELSE procs' = [procs EXCEPT ![p].pc = "hookFind",
                                   ![p].loaded = movies[procs[p].movie].averageRating]
    /\ UNCHANGED <<movies, reviews, Frame>>

\* post('save'): await ReviewAndRating.find({ movie }); the mean
HookFind(p) ==
    /\ procs[p].pc = "hookFind"
    /\ procs' = [procs EXCEPT ![p].pc = "hookSave",
                              ![p].avg = AverageRating(ReviewsOf(reviews, procs[p].movie))]
    /\ UNCHANGED <<movies, reviews, Frame>>

\* post('save'): await movie.save(), which writes averageRating when the
\* assignment changed it in the loaded document
HookSave(p) ==
    /\ procs[p].pc = "hookSave"
    /\ movies' = IF procs[p].avg # procs[p].loaded /\ procs[p].movie \in DOMAIN movies
                 THEN SetAverage(movies, procs[p].movie, procs[p].avg)
                 ELSE movies
    /\ goto(p, "rateFind")
    /\ UNCHANGED <<reviews, Frame>>

\* updateMovieRating: await ReviewAndRating.find({ movie }); the mean
RateFind(p) ==
    /\ procs[p].pc = "rateFind"
    /\ procs' = [procs EXCEPT ![p].pc = "rateWrite",
                              ![p].avg = AverageRating(ReviewsOf(reviews, procs[p].movie))]
    /\ UNCHANGED <<movies, reviews, Frame>>

\* updateMovieRating: await Movie.findByIdAndUpdate(movieId, { averageRating });
\* then the 201 or 200 answer
RateWrite(p) ==
    /\ procs[p].pc = "rateWrite"
    /\ movies' = IF procs[p].movie \in DOMAIN movies
                 THEN SetAverage(movies, procs[p].movie, procs[p].avg)
                 ELSE movies
    /\ finish(p, IF procs[p].op = "reviewPost" THEN 201 ELSE 200)
    /\ UNCHANGED <<reviews, Frame>>

StartPostStep ==
    \E p \in Slots, tok \in Tokens :
        \E in \in Inputs(authenticateUser(tok), [movie : MovieIds, rating : ConcRatings]) :
            StartPost(p, tok, in.movie, in.rating, "good")
StartPutStep ==
    \E p \in Slots, tok \in Tokens :
        \E in \in Inputs(authenticateUser(tok), [rid : ReviewIds, rating : ConcRatings]) :
            StartPut(p, tok, in.rid, in.rating, "")
PostFindMovieStep == \E p \in Slots : PostFindMovie(p)
PostFindUserStep == \E p \in Slots : PostFindUser(p)
PostFindOneStep == \E p \in Slots : PostFindOne(p)
PostSaveStep == \E p \in Slots : PostSave(p)
PutFindReviewStep == \E p \in Slots : PutFindReview(p)
PutSaveStep == \E p \in Slots : PutSave(p)
HookFindMovieStep == \E p \in Slots : HookFindMovie(p)
HookFindStep == \E p \in Slots : HookFind(p)
HookSaveStep == \E p \in Slots : HookSave(p)
RateFindStep == \E p \in Slots : RateFind(p)
RateWriteStep == \E p \in Slots : RateWrite(p)

NextConc ==
    \/ StartPostStep
    \/ StartPutStep
    \/ PostFindMovieStep
    \/ PostFindUserStep
    \/ PostFindOneStep
    \/ PostSaveStep
    \/ PutFindReviewStep
    \/ PutSaveStep
    \/ HookFindMovieStep
    \/ HookFindStep
    \/ HookSaveStep
    \/ RateFindStep
    \/ RateWriteStep

SpecConc == InitConc /\ [][NextConc]_vars

(***************************************************************************)
(* Paginated listings.  A query parameter is <<k>> for the digits of the   *)
(* integer k and <<>> when it is left out; a number the JSON response      *)
(* cannot carry (Infinity, NaN: sent as null) is <<>>, any other k is <<k>>. *)
(***************************************************************************)
MaxDocs == 3
MaxQuery == 2
DefaultPage == 1
DefaultLimit == 10

Absent == <<>>
QueryInputs == {Absent} \cup {<<k>> : k \in -1..MaxQuery}

\* let { page = 1 } = req.query; parseInt(page)
parseIntDefault(q, d) == IF q = Absent THEN d ELSE q[1]

\* parseInt(req.query.page) || 1: NaN and 0 are falsy
parseIntOr(q, d) == IF q = Absent \/ q[1] = 0 THEN d ELSE q[1]

\* Math.max(1, n)
atLeastOne(n) == IF n < 1 THEN 1 ELSE n

\* Math.ceil(a / b) for a >= 0, as the response carries it
mathCeil(a, b) ==
    IF b = 0 THEN <<>>
    ELSE IF b > 0 THEN <<(a + b - 1) \div b>>
    ELSE <<0 - (a \div (0 - b))>>

\* totalItemsCount === 0 ? 1 : Math.ceil(totalItemsCount / limit)
oneOrCeil(a, b) == IF a = 0 THEN <<1>> ELSE mathCeil(a, b)

\* the ids of a collection in creation order
RECURSIVE inOrder(_)
inOrder(S) ==
    IF S = {} THEN <<>>
    ELSE LET first == CHOOSE x \in S : \A y \in S : x[2] <= y[2]
         IN <<first>> \o inOrder(S \ {first})

\* the documents a query predicate may select: any leading part of the collection
Matches(all) == {SubSeq(all, 1, k) : k \in 0..Len(all)}

\* sort({ rating: -1 }): movieSchema declares no rating path, so a Movie
\* document carries no such field and its sort key is null
NoRating == <<"null">>
ratingField(mv) == IF "rating" \in DOMAIN mv THEN mv.rating ELSE NoRating
\* key a may come before key b in a descending sort (null sorts lowest)
descending(a, b) == IF a = NoRating \/ b = NoRating THEN b = NoRating ELSE a >= b
\* the orders in which the datastore may return the documents: every
\* arrangement that is descending in the key; equal keys come in any order
SortedByRating(mvs, idSeq) ==
    {p \in [1..Len(idSeq) -> Range(idSeq)] :
        /\ Range(p) = Range(idSeq)
        /\ \A i, j \in 1..Len(idSeq) :
               i < j => descending(ratingField(mvs[p[i]]), ratingField(mvs[p[j]]))}

\* find(...).skip(skip).limit(limit): limit 0 is no limit, a negative limit
\* returns as many as its absolute value
skipLimit(items, skip, limit) ==
    LET n == IF limit = 0 THEN Len(items) ELSE IF limit < 0 THEN 0 - limit ELSE limit
        last == IF skip + n < Len(items) THEN skip + n ELSE Len(items)
    IN SubSeq(items, skip + 1, last)

\* the response of a listing; skip and limit are what the datastore was given
Listing(op, status, queried, page, limit, totalItems, totalPages, window) ==
    [op |-> op, status |-> status, queried |-> queried, page |-> page, limit |-> limit,
     skip |-> (page - 1) * limit, totalItems |-> totalItems, totalPages |-> totalPages,
     window |-> window]

Answer(r) == resp' = r /\ UNCHANGED Data /\ UNCHANGED procs

\* a listing rejected before its query runs
NoListing(op, status) == Answer(Listing(op, status, FALSE, 1, 1, 0, <<>>, <<>>))

\* The common body: the window is fetched (a negative skip makes the datastore
\* throw: 500), the matching documents are counted, an empty window is
\* answered 404 on the routes that do so ("any": on every page, "later": on
\* pages after the first), and totalPages is the plain ceiling or, where the
\* route floors it (floored), 1 for an empty result.
Paginate(op, items, page, limit, notFound, floored) ==
    LET window == skipLimit(items, (page - 1) * limit, limit)
        failed(status) == Listing(op, status, TRUE, page, limit, 0, <<>>, <<>>)
    IN
    IF (page - 1) * limit < 0 THEN Answer(failed(500))
    ELSE IF notFound = "any" /\ window = <<>> THEN Answer(failed(404))
    ELSE IF notFound = "later" /\ window = <<>> /\ page > 1 THEN Answer(failed(404))
    ELSE Answer(Listing(op, 200, TRUE, page, limit, Len(items),
                        IF floored THEN oneOrCeil(Len(items), limit)
                        ELSE mathCeil(Len(items), limit), window))

\* GET /api/moviesCRUD
MoviesList(pageQ, limitQ) ==
    Paginate("moviesList", inOrder(DOMAIN movies),
             parseIntOr(pageQ, DefaultPage), parseIntOr(limitQ, DefaultLimit), "any", FALSE)

\* GET /api/movies/upcoming
MoviesUpcoming(upcoming, pageQ, limitQ) ==
    Paginate("moviesUpcoming", upcoming,
             parseIntOr(pageQ, DefaultPage), parseIntOr(limitQ, DefaultLimit), "never", FALSE)

\* GET /api/movies/search, /filter, /advanced-filter, /top-month: the same
\* pagination code after the query is built
MoviesQuery(op, matched, pageQ, limitQ) ==
    Paginate(op, matched, parseIntDefault(pageQ, DefaultPage),
             parseIntDefault(limitQ, DefaultLimit), "never", FALSE)

\* GET /api/movies/top-genre
MoviesTopGenre(genre, matched, pageQ, limitQ) ==
    IF ~genre THEN NoListing("moviesTopGenre", 400)
    ELSE MoviesQuery("moviesTopGenre", matched, pageQ, limitQ)

\* the clamped parameters of the news, custom-list and recommendation listings
Clamped(op, items, pageQ, limitQ, notFound) ==
    Paginate(op, items, atLeastOne(parseIntDefault(pageQ, DefaultPage)),
             atLeastOne(parseIntDefault(limitQ, DefaultLimit)), notFound, TRUE)

\* GET /api/news
NewsList(pageQ, limitQ) == Clamped("newsList", inOrder(DOMAIN news), pageQ, limitQ, "never")

\* GET /api/news/category/:category
NewsByCategory(category, pageQ, limitQ) ==
    Clamped("newsByCategory",
            SelectSeq(inOrder(DOMAIN news), LAMBDA n : news[n].category = category),
            pageQ, limitQ, "any")

\* GET /api/customlist/all
ListsAll(pageQ, limitQ) == Clamped("listsAll", inOrder(DOMAIN lists), pageQ, limitQ, "later")

\* GET /api/customlist
ListsMine(tok, pageQ, limitQ) ==
    IF ~authenticateUser(tok) THEN NoListing("listsMine", 401)
    ELSE Clamped("listsMine",
                 SelectSeq(inOrder(DOMAIN lists), LAMBDA l : lists[l].user = tok.userId),
                 pageQ, limitQ, "later")

\* GET /api/wishlist: populate replaces user.wishlist by the window, so the
\* total is the length of the window; the limit is parsed and not clamped
WishlistGet(tok, pageQ, limitQ) ==
    LET op == "wishlistGet"
        page == atLeastOne(parseIntDefault(pageQ, DefaultPage))
        limit == parseIntDefault(limitQ, DefaultLimit)
        window == skipLimit(users[tok.userId].wishlist, (page - 1) * limit, limit)
    IN
    IF ~authenticateUser(tok) THEN NoListing(op, 401)
    ELSE IF (page - 1) * limit < 0
         THEN Answer(Listing(op, 500, TRUE, page, limit, 0, <<>>, <<>>))
    ELSE IF window = <<>> /\ page > 1
         THEN Answer(Listing(op, 404, TRUE, page, limit, 0, <<>>, <<>>))
    ELSE Answer(Listing(op, 200, TRUE, page, limit, Len(window),
                        oneOrCeil(Len(window), limit), window))

\* GET /api/recommendations/personalized (the block of genre matches; the
\* trending block is paginated like /trending-movies)
RecsPersonalized(tok, matched, pageQ, limitQ) ==
    IF ~authenticateUser(tok) THEN NoListing("recsPersonalized", 401)
    ELSE Clamped("recsPersonalized", matched, pageQ, limitQ, "never")

\* GET /api/recommendations/similar-movies/:id
RecsSimilar(id, matched, pageQ, limitQ) ==
    IF id \notin DOMAIN movies THEN NoListing("recsSimilar", 404)
    ELSE Clamped("recsSimilar", SelectSeq(matched, LAMBDA m : m # id), pageQ, limitQ, "never")

\* GET /api/recommendations/trending-movies (both blocks list every movie)
RecsTrending(pageQ, limitQ) ==
    Clamped("recsTrending", inOrder(DOMAIN movies), pageQ, limitQ, "never")

MoviesListStep == \E pageQ, limitQ \in QueryInputs : MoviesList(pageQ, limitQ)
MoviesUpcomingStep ==
    \E pageQ, limitQ \in QueryInputs, upcoming \in Matches(inOrder(DOMAIN movies)) :
        MoviesUpcoming(upcoming, pageQ, limitQ)
MoviesSearchStep ==
    \E pageQ, limitQ \in QueryInputs, matched \in Matches(inOrder(DOMAIN movies)) :
        MoviesQuery("moviesSearch", matched, pageQ, limitQ)
MoviesFilterStep ==
    \E pageQ, limitQ \in QueryInputs, matched \in Matches(inOrder(DOMAIN movies)) :
        MoviesQuery("moviesFilter", matched, pageQ, limitQ)
MoviesAdvancedFilterStep ==
    \E pageQ, limitQ \in QueryInputs, matched \in Matches(inOrder(DOMAIN movies)) :
        MoviesQuery("moviesAdvancedFilter", matched, pageQ, limitQ)
MoviesTopMonthStep ==
    \E pageQ, limitQ \in QueryInputs, matched \in Matches(inOrder(DOMAIN movies)) :
        \E sorted \in SortedByRating(movies, matched) :
            MoviesQuery("moviesTopMonth", sorted, pageQ, limitQ)
MoviesTopGenreStep ==
    \E genre \in BOOLEAN, pageQ, limitQ \in QueryInputs, matched \in Matches(inOrder(DOMAIN movies)) :
        \E sorted \in SortedByRating(movies, matched) :
            MoviesTopGenre(genre, sorted, pageQ, limitQ)
NewsListStep == \E pageQ, limitQ \in QueryInputs : NewsList(pageQ, limitQ)
NewsByCategoryStep ==
    \E category \in {"Movies", "Drama"}, pageQ, limitQ \in QueryInputs :
        NewsByCategory(category, pageQ, limitQ)
ListsAllStep == \E pageQ, limitQ \in QueryInputs : ListsAll(pageQ, limitQ)
ListsMineStep ==
    \E tok \in Tokens, pageQ, limitQ \in QueryInputs : ListsMine(tok, pageQ, limitQ)
WishlistGetStep ==
    \E tok \in Tokens, pageQ, limitQ \in QueryInputs : WishlistGet(tok, pageQ, limitQ)
RecsPersonalizedStep ==
    \E tok \in Tokens, pageQ, limitQ \in QueryInputs, matched \in Matches(inOrder(DOMAIN movies)) :
        RecsPersonalized(tok, matched, pageQ, limitQ)
RecsSimilarStep ==
    \E id \in MovieIds, pageQ, limitQ \in QueryInputs, matched \in Matches(inOrder(DOMAIN movies)) :
        RecsSimilar(id, matched, pageQ, limitQ)
RecsTrendingStep == \E pageQ, limitQ \in QueryInputs : RecsTrending(pageQ, limitQ)

\* Collections of n documents each, n from 0 to MaxDocs: n movies (titles t1,
\* t2, ...), n articles of category Movies, n custom lists of u1 (names a1,
\* a2, ...), and all the movies on u1's wishlist.
InitListings ==
    \E n \in 0..MaxDocs :
        /\ movies = [m \in {MovieId(i) : i \in 1..n} |-> plainMovie("t" \o ToString(m[2]))]
        /\ users = [u \in UserIds |->
                [registered(u) EXCEPT !.wishlist =
                    IF u = "u1" THEN [i \in 1..n |-> MovieId(i)] ELSE <<>>]]
        /\ persons = <<>>
        /\ reviews = <<>>
        /\ lists = [l \in {ListId(i) : i \in 1..n} |->
                [user |-> "u1", name |-> "a" \o ToString(l[2]), description |-> "", movies |-> <<>>]]
        /\ news = [a \in {NewsId(i) : i \in 1..n} |->
                [text |-> "n", category |-> "Movies", relatedMovies |-> <<>>, relatedActors |-> <<>>]]
        /\ ids = [movie |-> n, person |-> 0, list |-> n, news |-> n]
        /\ resp = Listing("none", 0, FALSE, 1, 1, 0, <<>>, <<>>)
        /\ procs = <<>>
        /\ discussions = <<>>

NextListings ==
    \/ MoviesListStep
    \/ MoviesUpcomingStep
    \/ MoviesSearchStep
    \/ MoviesFilterStep
    \/ MoviesAdvancedFilterStep
    \/ MoviesTopMonthStep
    \/ MoviesTopGenreStep
    \/ NewsListStep
    \/ NewsByCategoryStep
    \/ ListsAllStep
    \/ ListsMineStep
    \/ WishlistGetStep
    \/ RecsPersonalizedStep
    \/ RecsSimilarStep
    \/ RecsTrendingStep

SpecListings == InitListings /\ [][NextListings]_vars

\* n movies of the current month and of one genre, n from 0 to MaxDocs, added
\* with averageRating 1, 2, ... in this order
InitTop ==
    \E n \in 0..MaxDocs :
        /\ movies = [m \in {MovieId(i) : i \in 1..n} |->
                [plainMovie("t" \o ToString(m[2])) EXCEPT !.averageRating = Num(m[2])]]
        /\ users = [u \in UserIds |-> registered(u)]
        /\ persons = <<>>
        /\ reviews = <<>>
        /\ lists = <<>>
        /\ news = <<>>
        /\ ids = [movie |-> n, person |-> 0, list |-> 0, news |-> 0]
        /\ resp = Listing("none", 0, FALSE, 1, 1, 0, <<>>, <<>>)
        /\ procs = <<>>
        /\ discussions = <<>>

NextTop ==
    \/ MoviesTopMonthStep
    \/ MoviesTopGenreStep

SpecTop == InitTop /\ [][NextTop]_vars

(***************************************************************************)
(* Movie search.  Titles, person names and regular expressions are         *)
(* sequences of letters; a query parameter left out is <<>>.               *)
(***************************************************************************)
\* $options: 'i'
lowerCase(c) == IF c = "A" THEN "a" ELSE IF c = "D" THEN "d" ELSE c

\* { $regex: pattern, $options: 'i' } for a pattern of plain letters
regexMatch(text, pattern) ==
    \E i \in 0..(Len(text) - Len(pattern)) :
        \A j \in 1..Len(pattern) : lowerCase(text[i + j]) = lowerCase(pattern[j])

\* Person.findOne(filter): the first matching document, NoId for null
findOnePerson(pattern, types) ==
    LET found == SelectSeq(inOrder(DOMAIN persons),
                           LAMBDA p : regexMatch(persons[p].name, pattern)
                                      /\ persons[p].type \in types)
    IN IF found = <<>> THEN NoId ELSE Head(found)

\* the conditions pushed onto searchQuery.$or for the director and the actor
orConditions(dir, act) ==
    (IF dir # NoId THEN <<[field |-> "directors", id |-> dir], [field |-> "actors", id |-> dir]>>
     ELSE <<>>)
    \o (IF act # NoId /\ persons[act].type = "actor"
        THEN <<[field |-> "actors", id |-> act]>> ELSE <<>>)
    \o (IF act # NoId /\ persons[act].type \in {"director", "actor"}
        THEN <<[field |-> "actors", id |-> act], [field |-> "directors", id |-> act]>> ELSE <<>>)

\* Movie.find(searchQuery): the keys of the query are conjoined, the
\* conditions of its $or are alternatives
searchMatches(title, genre, conds) ==
    SelectSeq(inOrder(DOMAIN movies),
              LAMBDA m :
                  /\ title # <<>> => regexMatch(movies[m].title, title)
                  /\ genre # <<>> => genre[1] \in movies[m].genre
                  /\ conds # <<>> =>
                         \E i \in 1..Len(conds) :
                             conds[i].id \in Range(IF conds[i].field = "directors"
                                                   THEN movies[m].directors
                                                   ELSE movies[m].actors))

\* GET /api/movies/search
MoviesSearch(title, genre, director, actor, pageQ, limitQ) ==
    LET op == "moviesSearch"
        dir == IF director = <<>> THEN NoId ELSE findOnePerson(director, {"director"})
        act == IF actor = <<>> THEN NoId ELSE findOnePerson(actor, {"actor", "director", "crew"})
    IN
    IF director # <<>> /\ dir = NoId THEN NoListing(op, 404)
    ELSE IF actor # <<>> /\ act = NoId THEN NoListing(op, 404)
    ELSE MoviesQuery(op, searchMatches(title, genre, orConditions(dir, act)), pageQ, limitQ)

TitleWords == {<<>>, <<"D", "d">>}
NameWords == {<<>>, <<"D">>, <<"v">>, <<"z">>}
SearchGenres == {<<>>, <<"Action">>}

MoviesSearchByStep ==
    \E title \in TitleWords, director, actor \in NameWords, genre \in SearchGenres,
       pageQ, limitQ \in QueryInputs :
        MoviesSearch(title, genre, director, actor, pageQ, limitQ)

\* A director "dan", an actor "Ava", and a catalogue of up to MaxDocs movies
\* titled d, dd, ...: of every three, the first has both in its cast, the
\* second the director only, the third (a drama) the actor only.
InitSearch ==
    /\ users = [u \in UserIds |-> registered(u)]
    /\ persons = (PersonId(1) :> [name |-> <<"d", "a", "n">>, type |-> "director", filmography |-> <<>>])
                 @@ (PersonId(2) :> [name |-> <<"A", "v", "a">>, type |-> "actor", filmography |-> <<>>])
    /\ \E n \in 0..MaxDocs :
           /\ movies = [m \in {MovieId(i) : i \in 1..n} |->
                           [plainMovie([j \in 1..m[2] |-> "d"]) EXCEPT
                               !.directors = IF m[2] % 3 \in {1, 2} THEN <<PersonId(1)>> ELSE <<>>,
                               !.actors = IF m[2] % 3 \in {0, 1} THEN <<PersonId(2)>> ELSE <<>>]
                           @@ [genre |-> IF m[2] % 3 = 0 THEN {"Drama"} ELSE {"Action"}]]
           /\ ids = [movie |-> n, person |-> 2, list |-> 0, news |-> 0]
    /\ reviews = <<>>
    /\ lists = <<>>
    /\ news = <<>>
    /\ resp = Listing("none", 0, FALSE, 1, 1, 0, <<>>, <<>>)
    /\ procs = <<>>
    /\ discussions = <<>>

SpecSearch == InitSearch /\ [][MoviesSearchByStep]_vars

(***************************************************************************)
(* Reviews whose rating is any JSON number.  A number is a reduced         *)
(* fraction <<n, d>>; the handlers are those of POST and PUT /api/reviews  *)
(* with the comparisons and the mean taken over fractions.                 *)
(***************************************************************************)
\* a < b for two JSON numbers
lessThan(a, b) == a[1] * b[2] < b[1] * a[2]
\* !rating
ratingFalsy(r) == r[1] = 0
\* rating < 1 || rating > 5
ratingOutOfRange(r) == lessThan(r, Num(1)) \/ lessThan(Num(5), r)
\* reviewAndRatingSchema: rating { type: Number, min: 1, max: 5 }, reviewText required
numberReviewValid(r) ==
    ~lessThan(r.rating, Num(1)) /\ ~lessThan(Num(5), r.rating) /\ r.reviewText # ""

RECURSIVE SumNumbers(_)
SumNumbers(s) ==
    IF s = <<>> THEN Num(0)
    ELSE LET rest == SumNumbers(Tail(s))
         IN Frac(s[1].rating[1] * rest[2] + rest[1] * s[1].rating[2], s[1].rating[2] * rest[2])
\* reviews.reduce((sum, review) => sum + review.rating, 0) / reviews.length
AverageOfNumbers(rs) == Frac(SumNumbers(rs)[1], SumNumbers(rs)[2] * Len(rs))
averageOfMovie(mvs, revs, m) ==
    IF m \in DOMAIN mvs THEN SetAverage(mvs, m, AverageOfNumbers(ReviewsOf(revs, m))) ELSE mvs

ReviewPostNumber(tok, movie, rating, text) ==
    LET op == "reviewPost"
        new == [user |-> tok.userId, movie |-> movie, rating |-> rating, reviewText |-> text]
        revs2 == Append(reviews, new)
    IN
    IF ~authenticateUser(tok) THEN Unauthorized(op, tok)
    ELSE IF movie = NoId \/ ratingFalsy(rating) THEN Reject(op, tok, 400, "mandatory", 0, movie)
    ELSE IF ratingOutOfRange(rating) THEN Reject(op, tok, 400, "range", 0, movie)
    ELSE IF ~IsValidObjectId(movie) THEN Reject(op, tok, 400, "bad id", 0, movie)
    ELSE IF movie \notin DOMAIN movies THEN Reject(op, tok, 404, "no movie", 1, movie)
    ELSE IF tok.userId \notin DOMAIN users THEN Reject(op, tok, 404, "no user", 2, movie)
    ELSE IF existingReview(reviews, tok.userId, movie)
         THEN Reject(op, tok, 400, "already reviewed", 3, movie)
    ELSE IF ~numberReviewValid(new) THEN Reject(op, tok, 500, "validation", 3, movie)
    ELSE /\ Len(reviews) < MaxReviews
         /\ reviews' = revs2
         /\ movies' = averageOfMovie(movies, revs2, movie)
         /\ resp' = Response(op, tok, 201, "added", 9, movie)
         /\ UNCHANGED <<users, persons, lists, news, ids, procs, discussions>>

ReviewPutNumber(tok, rid, rating, text) ==
    LET op == "reviewPut"
        i == rid[2]
        old == reviews[i]
        upd == [old EXCEPT !.rating = IF ~ratingFalsy(rating) THEN rating ELSE @,
                           !.reviewText = IF text # "" THEN text ELSE @]
        revs2 == [reviews EXCEPT ![i] = upd]
    IN
    IF ~authenticateUser(tok) THEN Unauthorized(op, tok)
    ELSE IF ratingFalsy(rating) /\ text = "" THEN Reject(op, tok, 400, "mandatory", 0, rid)
    ELSE IF ~ratingFalsy(rating) /\ ratingOutOfRange(rating)
         THEN Reject(op, tok, 400, "range", 0, rid)
    ELSE IF ~IsValidObjectId(rid) THEN Reject(op, tok, 500, "cast", 1, rid)
    ELSE IF i \notin 1..Len(reviews) THEN Reject(op, tok, 404, "no review", 1, rid)
    ELSE IF ~isOwner(old, tok) THEN Reject(op, tok, 403, "not owner", 1, rid)
    ELSE IF postSaveThrows(movies, old.movie)
         THEN /\ reviews' = revs2
              /\ resp' = Response(op, tok, 500, "hook", 3, rid)
              /\ UNCHANGED <<users, movies, persons, lists, news, ids, procs, discussions>>
    ELSE /\ reviews' = revs2
         /\ movies' = averageOfMovie(movies, revs2, old.movie)
         /\ resp' = Response(op, tok, 200, "updated", 7, rid)
         /\ UNCHANGED <<users, persons, lists, news, ids, procs, discussions>>

\* 0, 0.5, 1, 2.5, 5, 5.5 and 6
NumberInputs == {<<0, 1>>, <<1, 2>>, <<1, 1>>, <<5, 2>>, <<5, 1>>, <<11, 2>>, <<6, 1>>}

ReviewPostNumberStep ==
    \E tok \in Tokens :
        \E in \in Inputs(authenticateUser(tok),
                         [movie : MovieIds \cup {NoId}, rating : NumberInputs, text : TextInputs]) :
            ReviewPostNumber(tok, in.movie, in.rating, in.text)

ReviewPutNumberStep ==
    \E tok \in Tokens :
        \E in \in Inputs(authenticateUser(tok),
                         [rid : ReviewIds, rating : NumberInputs, text : TextInputs]) :
            ReviewPutNumber(tok, in.rid, in.rating, in.text)

NextRatings ==
    \/ ReviewPostNumberStep
    \/ ReviewPutNumberStep

\* the catalogue of two movies, no review yet
SpecRatings == InitCatalog /\ [][NextRatings]_vars

(***************************************************************************)
(* Accounts.  In this part a User document carries the fields that         *)
(* registration, the profile and the notification settings write.  Email   *)
(* addresses and passwords are sequences of characters.                    *)
(***************************************************************************)
Lower ==
    {"a", "b", "c", "d", "e", "f", "g", "h", "i", "j", "k", "l", "m",
     "n", "o", "p", "q", "r", "s", "t", "u", "v", "w", "x", "y", "z"}
Upper ==
    {"A", "B", "C", "D", "E", "F", "G", "H", "I", "J", "K", "L", "M",
     "N", "O", "P", "Q", "R", "S", "T", "U", "V", "W", "X", "Y", "Z"}
Digits == {"0", "1", "2", "3", "4", "5", "6", "7", "8", "9"}

\* every character of text[from..to] is in the class
allIn(text, from, to, class) == \A i \in from..to : text[i] \in class
\* the index of the last occurrence of character c in text, 0 when there is none
lastIndexOf(text, c) ==
    IF \E i \in 1..Len(text) : text[i] = c
    THEN CHOOSE i \in 1..Len(text) : text[i] = c /\ \A j \in (i + 1)..Len(text) : text[j] # c
    ELSE 0

\* /^[a-zA-Z0-9._-]+@[a-zA-Z0-9.-]+\.[a-zA-Z]{2,6}$/.test(email): the local
\* part runs to the first "@" (the class has no "@"), the top-level part
\* starts after the last "." (its class has no ".")
emailRegexTest(email) ==
    LET at == indexOf(email, "@")
        dot == lastIndexOf(email, ".")
        n == Len(email)
    IN /\ at > 1
       /\ allIn(email, 1, at - 1, Lower \cup Upper \cup Digits \cup {".", "_", "-"})
       /\ dot > at + 1
       /\ allIn(email, at + 1, dot - 1, Lower \cup Upper \cup Digits \cup {".", "-"})
       /\ n - dot >= 2 /\ n - dot <= 6
       /\ allIn(email, dot + 1, n, Lower \cup Upper)

\* (mutant) the pattern without its (?=.*\d) lookahead
passwordRegexNoDigit(password) ==
    /\ \E i \in 1..Len(password) : password[i] \in Lower \cup Upper
    /\ Len(password) >= 8
    /\ allIn(password, 1, Len(password), Lower \cup Upper \cup Digits)

\* /^(?=.*[A-Za-z])(?=.*\d)[A-Za-z\d]{8,}$/.test(password)
passwordRegexTest(password) ==
    /\ \E i \in 1..Len(password) : password[i] \in Lower \cup Upper
    /\ \E i \in 1..Len(password) : password[i] \in Digits
    /\ Len(password) >= 8
    /\ allIn(password, 1, Len(password), Lower \cup Upper \cup Digits)

validRoles == {"user", "admin"}

\* userSchema.pre('save'): bcrypt.hash(password, 10)
bcryptHash(password) == <<"$2a$10$">> \o password

\* new User({ username, email, password, role }) after save()
newUser(username, email, password, role) ==
    [username |-> username, email |-> email, password |-> bcryptHash(password),
     role |-> role, wishlist |-> <<>>,
     profile |-> [nickName |-> "", bio |-> "", favoriteGenres |-> <<>>, favoriteActors |-> <<>>],
     remindersForNewReleases |-> TRUE, sendNotifications |-> TRUE]

AccountId(n) == "u" \o ToString(n)
MaxUsers == 2

\* POST /api/auth/register
Register(username, email, password, role) ==
    LET op == "register"
        id == AccountId(Cardinality(DOMAIN users) + 1)
    IN
    IF username = "" \/ email = <<>> \/ password = <<>>
    THEN Reject(op, NoToken, 400, "required", 0, NoId)
    ELSE IF ~emailRegexTest(email) THEN Reject(op, NoToken, 400, "email format", 0, NoId)
    ELSE IF ~passwordRegexTest(password) THEN Reject(op, NoToken, 400, "password", 0, NoId)
    ELSE IF role \notin validRoles THEN Reject(op, NoToken, 400, "role", 0, NoId)
    ELSE IF \E u \in DOMAIN users : users[u].email = email
         THEN Reject(op, NoToken, 400, "exists", 1, NoId)
    ELSE IF \E u \in DOMAIN users : users[u].username = username
         THEN Reject(op, NoToken, 500, "duplicate", 2, NoId)
    ELSE /\ Cardinality(DOMAIN users) < MaxUsers
         /\ users' = (id :> newUser(username, email, password, role)) @@ users
         /\ resp' = Response(op, NoToken, 201, "registered", 2, NoId)
         /\ UNCHANGED <<movies, persons, reviews, lists, news, ids, procs, discussions>>

\* n times the character c
Rep(c, n) == [i \in 1..n |-> c]

Usernames == {"", "ann", "bob"}
RoleInputs == {"", "user", "admin", "owner"}
\* a@b.co, c-d@e.f.org; then: no "@", no ".", a one-letter and a seven-letter
\* top-level part, a digit in it, an empty local part, an empty domain, a
\* space, two "@"
EmailInputs ==
    {<<>>,
     <<"a", "@", "b", ".", "c", "o">>,
     <<"c", "-", "d", "@", "e", ".", "f", ".", "o", "r", "g">>,
     <<"a", "b", ".", "c", "o">>,
     <<"a", "@", "b", "c", "o">>,
     <<"a", "@", "b", ".", "c">>,
     <<"a", "@", "b", ".">> \o Rep("c", 7),
     <<"a", "@", "b", ".", "c", "1">>,
     <<"@", "b", ".", "c", "o">>,
     <<"a", "@", ".", "c", "o">>,
     <<"a", " ", "@", "b", ".", "c", "o">>,
     <<"a", "@", "b", "@", "c", ".", "c", "o">>}
\* aaaaaaa1, Abcdefg12; then: seven characters, no digit, no letter, a "!"
PasswordInputs ==
    {<<>>,
     Rep("a", 7) \o <<"1">>,
     <<"A", "b", "c", "d", "e", "f", "g", "1", "2">>,
     Rep("a", 6) \o <<"1">>,
     Rep("a", 8),
     Rep("1", 8),
     Rep("a", 7) \o <<"1", "!">>}

RegisterStep ==
    \E username \in Usernames, email \in EmailInputs, password \in PasswordInputs,
       role \in RoleInputs :
        Register(username, email, password, role)

InitAccounts ==
    /\ users = <<>>
    /\ movies = <<>>
    /\ persons = <<>>
    /\ reviews = <<>>
    /\ lists = <<>>
    /\ news = <<>>
    /\ ids = [movie |-> 0, person |-> 0, list |-> 0, news |-> 0]
    /\ resp = Response("none", NoToken, 0, "", 0, NoId)
    /\ procs = <<>>
    /\ discussions = <<>>

SpecRegister == InitAccounts /\ [][RegisterStep]_vars

(***************************************************************************)
(* Profile and notification settings.  A field of a request body is <<>>   *)
(* when it is absent and <<v>> when it is supplied with value v.           *)
(***************************************************************************)
\* !field, for a field that holds a string or an array
falsyField(f) == f = <<>> \/ f = <<"">>

\* (mutant) every field of the body assigned to the document
applyProfileAndName(user, body) ==
    [user EXCEPT
        !.username = IF body.nickName # <<>> THEN body.nickName[1] ELSE @,
        !.profile.nickName = IF body.nickName # <<>> THEN body.nickName[1] ELSE @,
        !.profile.bio = IF body.bio # <<>> THEN body.bio[1] ELSE @,
        !.profile.favoriteGenres = IF body.favoriteGenres # <<>> THEN body.favoriteGenres[1] ELSE @,
        !.profile.favoriteActors = IF body.favoriteActors # <<>> THEN body.favoriteActors[1] ELSE @,
        !.remindersForNewReleases =
            IF body.remindersForNewReleases # <<>> THEN body.remindersForNewReleases[1] ELSE @,
        !.sendNotifications = IF body.sendNotifications # <<>> THEN body.sendNotifications[1] ELSE @]

\* if (field !== undefined) user.field = field, for the six fields
applyProfile(user, body) ==
    [user EXCEPT
        !.profile.nickName = IF body.nickName # <<>> THEN body.nickName[1] ELSE @,
        !.profile.bio = IF body.bio # <<>> THEN body.bio[1] ELSE @,
        !.profile.favoriteGenres = IF body.favoriteGenres # <<>> THEN body.favoriteGenres[1] ELSE @,
        !.profile.favoriteActors = IF body.favoriteActors # <<>> THEN body.favoriteActors[1] ELSE @,
        !.remindersForNewReleases =
            IF body.remindersForNewReleases # <<>> THEN body.remindersForNewReleases[1] ELSE @,
        !.sendNotifications = IF body.sendNotifications # <<>> THEN body.sendNotifications[1] ELSE @]

\* PUT /api/profile/manage
ProfileManage(tok, body) ==
    LET op == "profileManage" IN
    IF ~authenticateUser(tok) THEN Unauthorized(op, tok)
    ELSE IF /\ falsyField(body.nickName) /\ falsyField(body.bio)
            /\ body.favoriteGenres = <<>> /\ body.favoriteActors = <<>>
            /\ body.remindersForNewReleases = <<>> /\ body.sendNotifications = <<>>
         THEN Reject(op, tok, 400, "nothing", 0, NoId)
    ELSE IF tok.userId \notin DOMAIN users THEN Reject(op, tok, 404, "no user", 1, NoId)
    ELSE /\ users' = [users EXCEPT ![tok.userId] = applyProfile(@, body)]
         /\ resp' = Response(op, tok, 200, "updated", 2, NoId)
         /\ UNCHANGED <<movies, persons, reviews, lists, news, ids, procs, discussions>>

\* $set: updateFields
setFlags(user, remainder, notifications) ==
    [user EXCEPT
        !.remindersForNewReleases = IF remainder # <<>> THEN remainder[1] ELSE @,
        !.sendNotifications = IF notifications # <<>> THEN notifications[1] ELSE @]

\* typeof value !== 'boolean'
notBoolean(f) == f # <<>> /\ f[1] \notin {"TRUE", "FALSE"}
\* the stored Boolean of a flag sent as true or false
asBoolean(v) == v = "TRUE"

\* PATCH /api/notifications/settings
SettingsPatch(tok, remainder, notifications) ==
    LET op == "settingsPatch"
        flag(f) == IF f = <<>> THEN <<>> ELSE <<asBoolean(f[1])>>
    IN
    IF ~authenticateUser(tok) THEN Unauthorized(op, tok)
    ELSE IF remainder = <<>> /\ notifications = <<>> THEN Reject(op, tok, 400, "nothing", 0, NoId)
    ELSE IF notBoolean(remainder) THEN Reject(op, tok, 400, "remainder", 0, NoId)
    ELSE IF notBoolean(notifications) THEN Reject(op, tok, 400, "notifications", 0, NoId)
    ELSE IF tok.userId \notin DOMAIN users THEN Reject(op, tok, 404, "no user", 1, NoId)
    ELSE /\ users' = [users EXCEPT ![tok.userId] = setFlags(@, flag(remainder), flag(notifications))]
         /\ resp' = Response(op, tok, 200, "settings", 1, NoId)
         /\ UNCHANGED <<movies, persons, reviews, lists, news, ids, procs, discussions>>

noFields ==
    [nickName |-> <<>>, bio |-> <<>>, favoriteGenres |-> <<>>, favoriteActors |-> <<>>,
     remindersForNewReleases |-> <<>>, sendNotifications |-> <<>>]
\* the empty body, a body of empty strings, a body with a nickname, a body
\* with a flag, and a body with all six fields
ProfileBodies ==
    {noFields,
     [noFields EXCEPT !.nickName = <<"">>, !.bio = <<"">>],
     [noFields EXCEPT !.nickName = <<"nick">>],
     [noFields EXCEPT !.remindersForNewReleases = <<FALSE>>],
     [nickName |-> <<"nick">>, bio |-> <<"bio">>, favoriteGenres |-> <<<<"Action">>>>,
      favoriteActors |-> <<<<PersonId(1)>>>>,
      remindersForNewReleases |-> <<TRUE>>, sendNotifications |-> <<TRUE>>]}
\* a flag of the settings body: absent, the JSON values true and false
\* (written "TRUE" and "FALSE"), or the string "yes"
FlagInputs == {<<>>, <<"TRUE">>, <<"FALSE">>, <<"yes">>}

ProfileManageStep ==
    \E tok \in Tokens :
        \E body \in Inputs(authenticateUser(tok), ProfileBodies) : ProfileManage(tok, body)

SettingsPatchStep ==
    \E tok \in Tokens :
        \E in \in Inputs(authenticateUser(tok), [remainder : FlagInputs, notifications : FlagInputs]) :
            SettingsPatch(tok, in.remainder, in.notifications)

\* two accounts as two registrations leave them
InitProfile ==
    /\ users = (AccountId(1) :> newUser("ann", <<"a", "@", "b", ".", "c", "o">>,
                                          Rep("a", 7) \o <<"1">>, "user"))
             @@ (AccountId(2) :> newUser("bob", <<"c", "-", "d", "@", "e", ".", "f", ".", "o", "r", "g">>,
                                          <<"A", "b", "c", "d", "e", "f", "g", "1", "2">>, "admin"))
    /\ movies = <<>>
    /\ persons = <<>>
    /\ reviews = <<>>
    /\ lists = <<>>
    /\ news = <<>>
    /\ ids = [movie |-> 0, person |-> 0, list |-> 0, news |-> 0]
    /\ resp = Response("none", NoToken, 0, "", 0, NoId)
    /\ procs = <<>>
    /\ discussions = <<>>

NextProfile ==
    \/ ProfileManageStep
    \/ SettingsPatchStep

SpecProfile == InitProfile /\ [][NextProfile]_vars

(***************************************************************************)
(* Discussions and their comments.  The text of a comment is a sequence of *)
(* characters.                                                             *)
(***************************************************************************)
DiscussionId(n) == <<"d", n>>
MaxDiscussions == 2
MaxComments == 2

\* relatedMovie === ""
EmptyString == <<<<"empty", 0>>>>

\* content.trim()
RECURSIVE trimStart(_)
trimStart(text) == IF text # <<>> /\ Head(text) = " " THEN trimStart(Tail(text)) ELSE text
RECURSIVE trimEnd(_)
trimEnd(text) ==
    IF text # <<>> /\ text[Len(text)] = " " THEN trimEnd(SubSeq(text, 1, Len(text) - 1)) ELSE text
trim(text) == trimEnd(trimStart(text))

\* (mutant) discussion.comments.unshift(comment)
unshiftComment(comments, comment) == <<comment>> \o comments

\* discussion.comments.push({ content, createdBy })
pushComment(comments, comment) == Append(comments, comment)

\* POST /api/discussion/create-new.  valid: title, content and category pass
\* validateDiscussion.  A relatedMovie array of one id is cast to that id.
DiscussionCreate(tok, valid, relatedMovie) ==
    LET op == "discussionCreate"
        id == DiscussionId(Cardinality(DOMAIN discussions) + 1)
        related == IF relatedMovie = AbsentArr THEN NoId ELSE relatedMovie[1]
        new == [createdBy |-> tok.userId, relatedMovie |-> related, comments |-> <<>>]
    IN
    IF ~authenticateUser(tok) THEN Unauthorized(op, tok)
    ELSE IF ~valid THEN Reject(op, tok, 400, "invalid", 0, NoId)
    ELSE IF relatedMovie = EmptyString THEN Reject(op, tok, 400, "empty movie", 0, NoId)
    ELSE IF relatedMovie # AbsentArr /\ BadId \in Range(relatedMovie)
         THEN Reject(op, tok, 400, "bad movie id", 0, NoId)
    ELSE IF relatedMovie # AbsentArr /\ invalidIds(movies, relatedMovie) # <<>>
         THEN Reject(op, tok, 400, "no movie", 1, NoId)
    ELSE /\ Cardinality(DOMAIN discussions) < MaxDiscussions
         /\ discussions' = (id :> new) @@ discussions
         /\ resp' = Response(op, tok, 201, "created", 2, id)
         /\ UNCHANGED <<users, movies, persons, reviews, lists, news, ids, procs>>

\* POST /api/discussion/:id/comments
CommentPost(tok, id, content) ==
    LET op == "commentPost" IN
    IF ~authenticateUser(tok) THEN Unauthorized(op, tok)
    ELSE IF content = <<>> \/ Len(trim(content)) < 1 THEN Reject(op, tok, 400, "content", 0, id)
    ELSE IF ~IsValidObjectId(id) THEN Reject(op, tok, 500, "cast", 0, id)
    ELSE IF id \notin DOMAIN discussions THEN Reject(op, tok, 404, "no discussion", 1, id)
    ELSE /\ Len(discussions[id].comments) < MaxComments
         /\ discussions' =
                [discussions EXCEPT ![id].comments =
                    pushComment(@, [content |-> content, createdBy |-> tok.userId])]
         /\ resp' = Response(op, tok, 201, "commented", 2, id)
         /\ UNCHANGED <<users, movies, persons, reviews, lists, news, ids, procs>>

DiscussionIds == {DiscussionId(n) : n \in Issued(Cardinality(DOMAIN discussions))}
\* nothing, a blank, "hi" and " yo"
CommentInputs == {<<>>, <<" ">>, <<"h", "i">>, <<" ", "y", "o">>}
RelatedInputs == {AbsentArr, EmptyString} \cup {<<m>> : m \in MovieIds \cup {BadId}}

DiscussionCreateStep ==
    \E tok \in Tokens :
        \E in \in Inputs(authenticateUser(tok), [valid : BOOLEAN, related : RelatedInputs]) :
            DiscussionCreate(tok, in.valid, in.related)

CommentPostStep ==
    \E tok \in Tokens :
        \E in \in Inputs(authenticateUser(tok),
                         [id : DiscussionIds \cup {BadId}, content : CommentInputs]) :
            CommentPost(tok, in.id, in.content)

NextDiscussion ==
    \/ DiscussionCreateStep
    \/ CommentPostStep

\* the catalogue of one movie in use, no discussion yet
SpecDiscussion == InitRejects /\ [][NextDiscussion]_vars

(***************************************************************************)
(* Datastore failures.  procs holds the request in flight: its route, the  *)
(* number of datastore calls it has completed, and its outcome.  A request *)
(* here passes every validation, so it makes all the calls of its handler. *)
(***************************************************************************)
\* The datastore calls a handler awaits on its success path, in order:
\* "try" for a call inside the handler's try block, "bare" for one outside.
datastoreCalls(op) ==
    CASE op = "register" -> <<"bare", "try">>
      [] op = "login" -> <<"try">>
      [] op = "reviewPost" -> <<"bare", "bare", "bare", "try", "try">>
      [] op = "reviewPut" -> <<"try", "try", "try">>
      [] op = "movieAdd" -> <<"try", "try", "try", "try", "try">>
      [] op = "moviePut" -> <<"try", "try", "try", "try", "try", "try">>
      [] op = "movieDelete" -> <<"try">>
      [] op = "personAdd" -> <<"try">>
      [] op = "newsAdd" -> <<"bare", "bare", "try">>
      [] op = "newsPut" -> <<"bare", "bare", "bare", "try">>
      [] op = "listCreate" -> <<"try", "try">>
      [] op = "listDelete" -> <<"try", "try">>
      [] op = "listAddMovie" -> <<"try", "try", "try">>
      [] op = "listUpdate" -> <<"try", "try">>
      [] op = "listRemoveMovie" -> <<"try", "try">>
      [] op = "wishlistAdd" -> <<"try", "try">>
      [] op = "wishlistRemove" -> <<"try", "try">>
      [] op = "profileManage" -> <<"try", "try">>
      [] op = "settingsPatch" -> <<"try">>
      [] op = "discussionCreate" -> <<"bare", "try">>
      [] op = "commentPost" -> <<"try", "try">>
Routes ==
    {"register", "login", "reviewPost", "reviewPut", "movieAdd", "moviePut", "movieDelete",
     "personAdd", "newsAdd", "newsPut", "listCreate", "listDelete", "listAddMovie",
     "listUpdate", "listRemoveMovie", "wishlistAdd", "wishlistRemove", "profileManage",
     "settingsPatch", "discussionCreate", "commentPost"}

\* the status the catch block of the handler answers with
catchStatus(op) == IF op = "newsAdd" THEN 400 ELSE 500

\* outcome: "pending" while the handler runs, "answered" once res.json was
\* called, "unhandled" when the handler's promise was rejected (no response)
noRequest == [op |-> "none", calls |-> 0, failedAt |-> 0, outcome |-> "answered", status |-> 0]

\* a request arrives and its handler runs up to its first datastore call
RequestArrives(op) ==
    /\ procs.outcome # "pending"
    /\ procs' = [op |-> op, calls |-> 0, failedAt |-> 0, outcome |-> "pending", status |-> 0]
    /\ UNCHANGED <<Data, resp>>

\* the next datastore call of the handler returns, or fails
DatastoreCall(up) ==
    /\ procs.outcome = "pending"
    /\ LET n == procs.calls + 1
           all == datastoreCalls(procs.op)
       IN procs' =
              IF up THEN IF n = Len(all)
                         THEN [procs EXCEPT !.calls = n, !.outcome = "answered", !.status = 200]
                         ELSE [procs EXCEPT !.calls = n]
              ELSE IF all[n] = "try"
                   THEN [procs EXCEPT !.failedAt = n, !.outcome = "answered",
                                      !.status = catchStatus(procs.op)]
                   ELSE [procs EXCEPT !.failedAt = n, !.outcome = "unhandled"]
    /\ UNCHANGED <<Data, resp>>

RequestArrivesStep == \E op \in Routes : RequestArrives(op)
DatastoreCallStep == \E up \in BOOLEAN : DatastoreCall(up)

InitFaults ==
    /\ users = [u \in UserIds |-> registered(u)]
    /\ movies = <<>>
    /\ persons = <<>>
    /\ reviews = <<>>
    /\ lists = <<>>
    /\ news = <<>>
    /\ ids = [movie |-> 0, person |-> 0, list |-> 0, news |-> 0]
    /\ resp = Response("none", NoToken, 0, "", 0, NoId)
    /\ procs = noRequest
    /\ discussions = <<>>

NextFaults ==
    \/ RequestArrivesStep
    \/ DatastoreCallStep

SpecFaults == InitFaults /\ [][NextFaults]_vars

(***************************************************************************)
(* The notification batch.  procs holds the one run of                     *)
(* checkUpcomingMovies: where it is, the movies and users it fetched, the  *)
(* users sendNotification was called for, and the emails the provider      *)
(* accepted and refused.                                                   *)
(***************************************************************************)
\* the day the batch runs, as <<year, month, day>>
today == <<2024, 12, 20>>

\* nextMonth.setMonth(nextMonth.getMonth() + 1), for a day every month has
setMonthNext(date) ==
    IF date[2] = 12 THEN <<date[1] + 1, 1, date[3]>> ELSE <<date[1], date[2] + 1, date[3]>>

\* $lte on dates
dateLte(a, b) ==
    \/ a[1] < b[1]
    \/ a[1] = b[1] /\ a[2] < b[2]
    \/ a[1] = b[1] /\ a[2] = b[2] /\ a[3] <= b[3]

\* Movie.find({ releaseDate: { $gte: new Date(), $lte: nextMonth } })
upcomingMovies ==
    {m \in DOMAIN movies : /\ dateLte(today, movies[m].releaseDate)
                           /\ dateLte(movies[m].releaseDate, setMonthNext(today))}

\* User.find({ $or: [{ remindersForNewReleases: true }, { sendNotifications: true }] }),
\* in the order the users registered
registrationOrder == <<"u1", "a1", "u2">>
usersToNotify ==
    SelectSeq(registrationOrder,
              LAMBDA u : users[u].remindersForNewReleases \/ users[u].sendNotifications)

\* user.type: the User schema has no such field, the read gives undefined
typeOf(user) == IF "type" \in DOMAIN user THEN user.type ELSE "undefined"

\* upcomingMovies.filter(...): a favorite genre, or a favorite actor among the
\* (populated) actors
relevantMovies(u, upcoming) ==
    {m \in upcoming :
        \/ movies[m].genre \cap users[u].favoriteGenres # {}
        \/ Range(movies[m].actors) \cap users[u].favoriteActors \cap DOMAIN persons # {}}

\* (mutant) sendEmail without its try/catch: the provider's error is thrown on
sendEmailThrows(b, u, movieSet, accepted) ==
    IF accepted THEN [b EXCEPT !.sent = Append(@, [to |-> u, movies |-> movieSet])]
    ELSE [b EXCEPT !.failed = Append(@, u), !.pc = "threw"]

\* sendEmail: sgMail.send(msg); a refusal is caught and logged
sendEmail(b, u, movieSet, accepted) ==
    IF accepted THEN [b EXCEPT !.sent = Append(@, [to |-> u, movies |-> movieSet])]
    ELSE [b EXCEPT !.failed = Append(@, u)]

\* NotificationService.sendNotification (email is a required field of User)
sendNotification(b, u, movieSet, accepted) ==
    LET called == [b EXCEPT !.called = Append(@, u)] IN
    IF users[u].sendNotifications THEN sendEmail(called, u, movieSet, accepted) ELSE called

notStarted == [pc |-> "idle", upcoming |-> {}, queue |-> <<>>, called |-> <<>>,
               sent |-> <<>>, failed |-> <<>>]

\* checkUpcomingMovies up to its loop: the two queries.  A query the
\* datastore fails rejects the call; the scheduler catches and logs that.
BatchFetch(dbUp) ==
    /\ procs.pc = "idle"
    /\ procs' = IF dbUp
                THEN [procs EXCEPT !.pc = "loop", !.upcoming = upcomingMovies,
                                   !.queue = usersToNotify]
                ELSE [procs EXCEPT !.pc = "threw"]
    /\ UNCHANGED <<Data, resp>>

\* one iteration of for (const user of users)
BatchUser(accepted) ==
    /\ procs.pc = "loop"
    /\ procs.queue # <<>>
    /\ LET u == Head(procs.queue)
           rest == [procs EXCEPT !.queue = Tail(@)]
           relevant == relevantMovies(u, procs.upcoming)
       IN procs' = IF typeOf(users[u]) = "admin" THEN rest
                   ELSE IF relevant = {} THEN rest
                   ELSE sendNotification(rest, u, relevant, accepted)
    /\ UNCHANGED <<Data, resp>>

\* the loop is over: checkUpcomingMovies resolves
BatchReturn ==
    /\ procs.pc = "loop"
    /\ procs.queue = <<>>
    /\ procs' = [procs EXCEPT !.pc = "done"]
    /\ UNCHANGED <<Data, resp>>

BatchFetchStep == \E dbUp \in BOOLEAN : BatchFetch(dbUp)
BatchUserStep == \E accepted \in BOOLEAN : BatchUser(accepted)

\* Three registered users with any notification settings and favorites, one
\* person, a movie released within the month and one released earlier.
Favorites == {[genres |-> {}, actors |-> {}], [genres |-> {"Action"}, actors |-> {}],
              [genres |-> {}, actors |-> {PersonId(1)}]}
InitNotify ==
    /\ \E set \in [Range(registrationOrder) ->
                       [reminders : BOOLEAN, notifications : BOOLEAN, favorite : Favorites]] :
           users = [u \in Range(registrationOrder) |->
                       [remindersForNewReleases |-> set[u].reminders,
                        sendNotifications |-> set[u].notifications,
                        favoriteGenres |-> set[u].favorite.genres,
                        favoriteActors |-> set[u].favorite.actors] @@ registered(u)]
    /\ movies = (MovieId(1) :> ([genre |-> {"Action"}]
                                @@ [plainMovie("t1") EXCEPT !.releaseDate = <<2025, 1, 10>>,
                                                            !.actors = <<PersonId(1)>>]))
                @@ (MovieId(2) :> ([genre |-> {"Action"}] @@ plainMovie("t2")))
    /\ persons = (PersonId(1) :>
                    [type |-> "actor",
                     filmography |-> <<[movie |-> MovieId(1), role |-> "Actor", year |-> 2025]>>])
    /\ reviews = <<>>
    /\ lists = <<>>
    /\ news = <<>>
    /\ ids = [movie |-> 2, person |-> 1, list |-> 0, news |-> 0]
    /\ resp = Response("none", NoToken, 0, "", 0, NoId)
    /\ procs = notStarted
    /\ discussions = <<>>

NextNotify ==
    \/ BatchFetchStep
    \/ BatchUserStep
    \/ BatchReturn

SpecNotify == InitNotify /\ [][NextNotify]_vars

(***************************************************************************)
(* Owner-gated changes: a state with two reviews of movie 1 (one by each   *)
(* user) and a custom list of u1, as POST /api/reviews and                 *)
(* POST /api/customlist/create-new, add-movie leave it.                    *)
(***************************************************************************)
InitOwned ==
    /\ users = [u \in UserIds |-> registered(u)]
    /\ movies = (MovieId(1) :> [plainMovie("t1") EXCEPT !.averageRating = Frac(3, 2)])
                @@ (MovieId(2) :> plainMovie("t2"))
    /\ persons = <<>>
    /\ reviews = <<[user |-> "u1", movie |-> MovieId(1), rating |-> 1, reviewText |-> "first"],
                   [user |-> "a1", movie |-> MovieId(1), rating |-> 2, reviewText |-> "first"]>>
    /\ lists = (ListId(1) :> [user |-> "u1", name |-> "a", description |-> "", movies |-> <<MovieId(1)>>])
    /\ news = <<>>
    /\ ids = [movie |-> 2, person |-> 0, list |-> 1, news |-> 0]
    /\ resp = Response("none", NoToken, 0, "", 0, NoId)
    /\ procs = <<>>
    /\ discussions = <<>>

NextOwned ==
    \/ ReviewPutStep
    \/ ListDeleteStep
    \/ ListAddMovieStep
    \/ ListUpdateStep
    \/ ListRemoveMovieStep

SpecOwned == InitOwned /\ [][NextOwned]_vars

(***************************************************************************)
(* Properties.                                                             *)
(***************************************************************************)
\* the stored reviews of movie m, read off the collection
StoredFor(m) == {i \in 1..Len(reviews) : reviews[i].movie = m}

RECURSIVE RatingSum(_)
RatingSum(I) == IF I = {} THEN 0 ELSE LET i == CHOOSE j \in I : TRUE IN reviews[i].rating + RatingSum(I \ {i})

\* a = (sum of the ratings stored for m) / (their number)
IsMeanOf(a, m) ==
    /\ StoredFor(m) # {}
    /\ a[2] > 0
    /\ a[1] * Cardinality(StoredFor(m)) = RatingSum(StoredFor(m)) * a[2]

HasReview(u, m) == \E i \in 1..Len(reviews) : reviews[i].user = u /\ reviews[i].movie = m

\* the movie a review request is about
MovieOfRequest ==
    IF resp.op = "reviewPost" THEN resp.target ELSE reviews[resp.target[2]].movie

\* C1: after a successful review create or update for movie M, requests handled
\* one at a time, M's averageRating is the arithmetic mean of the ratings of
\* the reviews stored for M.
C1_AverageIsMean ==
    (resp.op \in {"reviewPost", "reviewPut"} /\ resp.status \in {200, 201}) =>
        /\ MovieOfRequest \in DOMAIN movies
        /\ IsMeanOf(movies[MovieOfRequest].averageRating, MovieOfRequest)

\* a successful update after which the movie has two reviews and the mean 3/2,
\* while the other movie is reviewed too
C1_Witness ==
    /\ resp.op = "reviewPut"
    /\ resp.status = 200
    /\ Cardinality(StoredFor(MovieOfRequest)) = 2
    /\ movies[MovieOfRequest].averageRating = <<3, 2>>

\* no review request is in flight
Quiescent == \A p \in DOMAIN procs : procs[p].pc \in {"idle", "done"}

\* C2: when concurrent review requests for a movie have all completed, the
\* movie's averageRating is the mean of the ratings stored for it.
C2_Converges ==
    Quiescent =>
        \A m \in DOMAIN movies : StoredFor(m) # {} => IsMeanOf(movies[m].averageRating, m)

\* C3: at most one review is stored per (user, movie) pair, also when POSTs of
\* the same user for the same movie interleave.
C3_UniquePair ==
    \A i, j \in 1..Len(reviews) :
        (reviews[i].user = reviews[j].user /\ reviews[i].movie = reviews[j].movie) => i = j

\* the request answered by this step is a POST /api/reviews of a user who has
\* already reviewed the movie it names
DuplicatePost ==
    /\ resp'.op = "reviewPost"
    /\ resp'.kind = "valid"
    /\ HasReview(resp'.user, resp'.target)

C5_RatingOnlyAccepted ==
    [][\A u \in DOMAIN users, m \in DOMAIN movies, r \in 1..5 :
        (StoredFor(m) = {} /\ ReviewPost(LoginToken(u), m, r, "")) =>
            /\ resp'.status = 201
            /\ reviews' = Append(reviews, [user |-> u, movie |-> m, rating |-> r, reviewText |-> ""])
            /\ movies'[m].averageRating = Num(r)]_vars

\* C6: no movie create and no movie update stores an averageRating taken from
\* the request: a new movie has the default 0, an updated one keeps its value.
C6_AverageNeverCallerSet ==
    [][resp'.op \in {"movieAdd", "moviePut"} =>
        \A m \in DOMAIN movies' :
            movies'[m].averageRating =
                IF m \in DOMAIN movies THEN movies[m].averageRating ELSE Num(0)]_vars

AdminOps == {"movieAdd", "moviePut", "movieDelete", "personAdd", "newsAdd", "newsPut"}

\* C7: an admin-gated mutation requested with a valid token whose role is not
\* 'admin' is answered 403 and creates, changes or deletes no Movie, Person or
\* News record.
C7_NonAdminForbidden ==
    [][(resp'.op \in AdminOps /\ resp'.kind = "valid" /\ resp'.role # "admin") =>
        (resp'.status = 403 /\ movies' = movies /\ persons' = persons /\ news' = news)]_vars

\* a user's delete of a movie that exists, answered 403
C7_Witness ==
    /\ resp.op = "movieDelete"
    /\ resp.role = "user"
    /\ resp.status = 403
    /\ resp.target \in DOMAIN movies

allExist(coll, idSeq) == \A i \in 1..Len(idSeq) : idSeq[i] \in DOMAIN coll
given(arr) == arr # AbsentArr

\* C8: an admin succeeds (2xx, the write applied) on every admin-gated mutation
\* given otherwise-valid input.
C8_AdminSucceeds ==
    [][\A a \in {u \in DOMAIN users : users[u].role = "admin"} :
        LET tok == LoginToken(a) IN
        /\ \A body \in MovieBodies :
              (/\ body.title # "" /\ ~titleTaken(movies, body.title, NoId)
               /\ given(body.directors) /\ allExist(persons, body.directors)
               /\ given(body.actors) /\ allExist(persons, body.actors)
               /\ body.averageRating = -1
               /\ MovieAdd(tok, body.title, body.directors, body.actors, body.averageRating))
              => (resp'.status = 201 /\ resp'.target \in DOMAIN movies' \ DOMAIN movies)
        /\ \A id \in DOMAIN movies, body \in MovieBodies :
              (/\ ~emptyBody(body) /\ ~titleTaken(movies, body.title, id)
               /\ allExist(persons, orEmpty(body.directors))
               /\ allExist(persons, orEmpty(body.actors))
               /\ Range(orEmpty(body.directors)) \cap Range(movies[id].directors) = {}
               /\ Range(orEmpty(body.actors)) \cap Range(movies[id].actors) = {}
               /\ MovieUpdate(tok, id, body))
              => (resp'.status = 200 /\ movies'[id] = applyMovieUpdate(movies[id], body))
        /\ \A type \in {"actor", "director", "crew"} :
              PersonAdd(tok, TRUE, type)
              => (resp'.status = 201 /\ resp'.target \in DOMAIN persons' \ DOMAIN persons)
        /\ \A body \in NewsBodies :
              (/\ body.text /\ body.category \in validCategories
               /\ allExist(movies, orEmpty(body.relatedMovies))
               /\ allExist(persons, orEmpty(body.relatedActors))
               /\ NewsAdd(tok, body))
              => (resp'.status = 201 /\ resp'.target \in DOMAIN news' \ DOMAIN news)
        /\ \A id \in DOMAIN news, body \in NewsBodies :
              (/\ body.text \/ body.category # "" \/ given(body.relatedMovies) \/ given(body.relatedActors)
               /\ body.category \in validCategories \cup {""}
               /\ allExist(movies, orEmpty(body.relatedMovies))
               /\ allExist(persons, orEmpty(body.relatedActors))
               /\ NewsUpdate(tok, id, body))
              => (resp'.status = 200 /\ news'[id] = applyNewsUpdate(news[id], body))]_vars

\* C9: a request to an endpoint behind the authentication middleware that has
\* no token, or a token that fails verification, is answered 401 and the
\* handler never runs: it makes no datastore call and changes nothing.
C9_UnauthenticatedIs401 ==
    [][(resp'.op # "none" /\ resp'.kind \in {"none", "invalid"}) =>
        /\ resp'.status = 401
        /\ resp'.db = 0
        /\ UNCHANGED Data]_vars

\* a request with a token that fails verification, answered 401, when there is
\* a movie, a person and an article to act on
C9_Witness ==
    /\ resp.kind = "invalid"
    /\ resp.status = 401
    /\ resp.op = "moviePut"
    /\ DOMAIN movies # {}
    /\ DOMAIN persons # {}
    /\ DOMAIN news # {}

\* C11: after any sequence of custom-list create and update requests, no two
\* CustomList records of the same owner have the same name.
C11_UniqueNames ==
    \A k, l \in DOMAIN lists :
        (lists[k].user = lists[l].user /\ lists[k].name = lists[l].name) => k = l

\* the step answers an add-movie or remove-movie of the owner of an existing list
OwnListMovieRequest ==
    /\ resp'.op \in {"listAddMovie", "listRemoveMovie"}
    /\ resp'.kind = "valid"
    /\ resp'.target \in DOMAIN lists
    /\ lists[resp'.target].user = resp'.user

\* the remove-movie of m from list l succeeded: one element fewer, m gone, the
\* other ids in their order, every other list as it was
RemovedFrom(l, m) ==
    /\ resp'.status = 200
    /\ l \in DOMAIN lists'
    /\ Len(lists'[l].movies) = Len(lists[l].movies) - 1
    /\ \A i \in 1..Len(lists'[l].movies) : lists'[l].movies[i] # m
    /\ lists'[l].movies = SelectSeq(lists[l].movies, LAMBDA x : x # m)
    /\ lists' = [lists EXCEPT ![l].movies = lists'[l].movies]

CeilOf(a, b) == CHOOSE k \in 0..a : k * b >= a /\ \A j \in 0..(k - 1) : j * b < a

\* C13: a paginated listing answered for page >= 1 and limit >= 1 carries
\* totalPages = max(1, ceil(totalItems / limit)), 1 when nothing matches, and
\* a window of at most limit items.
C13_TotalPages ==
    (resp.op # "none" /\ resp.status = 200 /\ resp.page >= 1 /\ resp.limit >= 1) =>
        /\ resp.totalPages =
              <<IF CeilOf(resp.totalItems, resp.limit) < 1 THEN 1
                ELSE CeilOf(resp.totalItems, resp.limit)>>
        /\ Len(resp.window) <= resp.limit

\* C14: whatever page and limit are supplied, the offset a listing passes to
\* the datastore is >= 0 and the limit it passes is >= 1.
C14_ClampedWindow ==
    (resp.op # "none" /\ resp.queried) => (resp.skip >= 0 /\ resp.limit >= 1)

(***************************************************************************)
(* Movie ids attached to wishlists, custom lists and news articles.        *)
(***************************************************************************)
\* the request added movie id m to a wishlist, to a custom list or to the
\* relatedMovies of a news article
AttachedNow(m) ==
    \/ \E u \in DOMAIN users :
           m \in Range(users'[u].wishlist) /\ m \notin Range(users[u].wishlist)
    \/ \E l \in DOMAIN lists' :
           /\ m \in Range(lists'[l].movies)
           /\ l \in DOMAIN lists => m \notin Range(lists[l].movies)
    \/ \E n \in DOMAIN news' :
           /\ m \in Range(news'[n].relatedMovies)
           /\ n \in DOMAIN news => m \notin Range(news[n].relatedMovies)

\* C15: a movie id is attached to a wishlist, a custom list or a news
\* article only if a Movie with that id exists when the request is handled;
\* a request naming an id without a Movie record is not answered with a
\* success and leaves wishlists, lists and articles unchanged.
C15_AttachedMovieExists ==
    [][\A m \in MovieIds :
          /\ AttachedNow(m) => m \in DOMAIN movies
          /\ (resp'.op = "wishlistAdd" /\ resp'.kind = "valid"
                 /\ resp'.target = m /\ m \notin DOMAIN movies)
              => (resp'.status >= 400 /\ UNCHANGED <<users, lists, news>>)]_vars

(***************************************************************************)
(* The cast of a movie and the filmographies of its persons.               *)
(***************************************************************************)
\* the Person ids a movie body names
NamedIn(body) == Range(orEmpty(body.directors)) \cup Range(orEmpty(body.actors))
\* the Person ids a Movie document refers to
CastOf(mv) == Range(mv.directors) \cup Range(mv.actors)
\* the request answered by this step was a movie create or update that succeeded
MovieWritten == resp'.op \in {"movieAdd", "moviePut"} /\ resp'.status \in {200, 201}
AdminAsked(op) == resp'.op = op /\ resp'.kind = "valid" /\ resp'.role = "admin"

AttachedTo(m, role) ==
    LET after == IF role = "Director" THEN movies'[m].directors ELSE movies'[m].actors
        before == IF m \notin DOMAIN movies THEN <<>>
                  ELSE IF role = "Director" THEN movies[m].directors ELSE movies[m].actors
    IN Range(SubSeq(after, Len(before) + 1, Len(after)))
\* what this step appended to the filmography of p
Gained(p) == SubSeq(persons'[p].filmography, Len(persons[p].filmography) + 1,
                    Len(persons'[p].filmography))
EntriesAs(es, role) == {i \in 1..Len(es) : es[i].role = role}

\* C17: a successful movie add or update that attaches P to movie M as
\* director (actor) appends to P's filmography exactly one entry
\* {movie: M, role: 'Director' ('Actor'), year: M's release year}, after the
\* entries P had, and leaves the filmography of every other Person unchanged.
C17_FilmographyAppended ==
    [][MovieWritten =>
        LET m == resp'.target IN
        \A p \in DOMAIN persons :
            /\ p \in DOMAIN persons'
            /\ Len(persons'[p].filmography) >= Len(persons[p].filmography)
            /\ SubSeq(persons'[p].filmography, 1, Len(persons[p].filmography))
                   = persons[p].filmography
            /\ \A i \in 1..Len(Gained(p)) :
                   /\ Gained(p)[i].movie = m
                   /\ Gained(p)[i].year = movies'[m].releaseDate[1]
                   /\ Gained(p)[i].role \in {"Director", "Actor"}
            /\ \A role \in {"Director", "Actor"} :
                   Cardinality(EntriesAs(Gained(p), role))
                      = IF p \in AttachedTo(m, role) THEN 1 ELSE 0]_vars

\* an update attached a person who already had a filmography entry, while
\* another person has none
C17_Witness ==
    /\ resp.op = "moviePut"
    /\ resp.status = 200
    /\ \E p, q \in DOMAIN persons :
           /\ Len(persons[p].filmography) >= 2
           /\ persons[p].filmography[Len(persons[p].filmography)].movie = resp.target
           /\ persons[q].filmography = <<>>

(***************************************************************************)
(* Deleting a movie.                                                       *)
(***************************************************************************)
\* something outside the Movie collection refers to movie m
Referenced(m) ==
    /\ \E i \in 1..Len(reviews) : reviews[i].movie = m
    /\ \E l \in DOMAIN lists : m \in Range(lists[l].movies)
    /\ \E u \in DOMAIN users : m \in Range(users[u].wishlist)
    /\ \E p \in DOMAIN persons :
           \E i \in 1..Len(persons[p].filmography) : persons[p].filmography[i].movie = m

\* C18: a successful DELETE /api/moviesCRUD/:id removes that Movie document
\* and nothing else: the other movies, the reviews, the custom lists, the
\* wishlists and the filmographies are as they were.
C18_DeleteOnlyMovie ==
    [][(resp'.op = "movieDelete" /\ resp'.status = 200) =>
          /\ resp'.target \in DOMAIN movies
          /\ DOMAIN movies' = DOMAIN movies \ {resp'.target}
          /\ \A m \in DOMAIN movies' : movies'[m] = movies[m]
          /\ UNCHANGED <<reviews, lists, users, persons, news>>]_vars

\* a movie was deleted to which a review, a list, a wishlist and a
\* filmography entry still refer
C18_Witness ==
    /\ resp.op = "movieDelete"
    /\ resp.status = 200
    /\ resp.target \notin DOMAIN movies
    /\ DOMAIN movies # {}
    /\ Referenced(resp.target)

(***************************************************************************)
(* The notification batch.                                                 *)
(***************************************************************************)
\* the relevant set of user u: the movies released from today to a month
\* from today (20 January 2025) that share a favorite genre of u or feature
\* a favorite actor of u
Relevant(u) ==
    {m \in DOMAIN movies :
        /\ dateLte(today, movies[m].releaseDate)
        /\ dateLte(movies[m].releaseDate, <<2025, 1, 20>>)
        /\ \/ movies[m].genre \cap users[u].favoriteGenres # {}
           \/ \E a \in Range(movies[m].actors) : a \in users[u].favoriteActors}
\* the users the batch is to email: not an admin, one of the two flags set,
\* and a non-empty relevant set
ToEmail ==
    {u \in DOMAIN users :
        /\ users[u].role # "admin"
        /\ users[u].remindersForNewReleases \/ users[u].sendNotifications
        /\ Relevant(u) # {}}
\* the emails handed to the provider in this run, accepted or refused
Dispatched == [i \in 1..(Len(procs.sent) + Len(procs.failed)) |->
                  IF i <= Len(procs.sent) THEN procs.sent[i].to
                  ELSE procs.failed[i - Len(procs.sent)]]

\* C19: when a run of checkUpcomingMovies has completed, one email each was
\* dispatched to exactly the non-admin users with a notification flag set
\* and a non-empty relevant set.
C19_EmailsExactlyRelevant ==
    procs.pc = "done" =>
        /\ Range(Dispatched) = ToEmail
        /\ \A i, j \in DOMAIN Dispatched : Dispatched[i] = Dispatched[j] => i = j

\* the users the run fetched, in the order of the iteration
Fetched ==
    SelectSeq(registrationOrder,
              LAMBDA u : users[u].remindersForNewReleases \/ users[u].sendNotifications)
Position(u) == CHOOSE i \in 1..Len(Fetched) : Fetched[i] = u

\* C20: a refused send does not end the run.  The run is never rejected once
\* the loop has started; every fetched user with a non-empty relevant set
\* that the loop has passed, also after a refusal, had sendNotification
\* called; and a run whose users are all handled resolves.
C20_FailureIsolated ==
    /\ (procs.pc = "threw") => (procs.failed = <<>> /\ procs.called = <<>>)
    /\ procs.pc \in {"loop", "done"} =>
           \A u \in Range(Fetched) :
               (Relevant(u) # {} /\ Position(u) <= Len(Fetched) - Len(procs.queue))
               => u \in Range(procs.called)
    /\ procs.pc = "done" => procs.queue = <<>>
    /\ (procs.pc = "loop" /\ procs.queue = <<>>) => ENABLED BatchReturn

\* the provider refused the email of one user, and a later user's was sent
C20_Witness ==
    /\ procs.pc = "done"
    /\ procs.failed # <<>>
    /\ \E i \in 1..Len(procs.sent) :
           Position(procs.sent[i].to) > Position(procs.failed[1])

(***************************************************************************)
(* Movie search.                                                           *)
(***************************************************************************)
\* the persons a name pattern resolves to
Resolved(pattern, types) ==
    LET hits == {p \in DOMAIN persons :
                    /\ persons[p].type \in types
                    /\ \E i \in 0..(Len(persons[p].name) - Len(pattern)) :
                           \A j \in 1..Len(pattern) :
                               lowerCase(persons[p].name[i + j]) = lowerCase(pattern[j])}
    IN IF hits = {} THEN NoId ELSE CHOOSE p \in hits : \A q \in hits : p[2] <= q[2]
Involves(m, p) == p \in Range(movies[m].directors) \cup Range(movies[m].actors)

\* C21: the predicate groups of a search are conjoined: every movie returned
\* has the genre asked for, involves the resolved director when a director
\* is asked for, and involves the resolved actor when an actor is asked for.
C21_SearchConjunctive ==
    [][(resp'.op = "moviesSearch" /\ resp'.status = 200 /\ resp'.window # <<>>) =>
        \A title \in TitleWords, director, actor \in NameWords, genre \in SearchGenres :
            \A pageQ \in {x \in QueryInputs : parseIntDefault(x, DefaultPage) = resp'.page},
               limitQ \in {x \in QueryInputs : parseIntDefault(x, DefaultLimit) = resp'.limit} :
                MoviesSearch(title, genre, director, actor, pageQ, limitQ) =>
                    \A m \in Range(resp'.window) :
                        /\ genre # <<>> => genre[1] \in movies[m].genre
                        /\ director # <<>> => Involves(m, Resolved(director, {"director"}))
                        /\ actor # <<>> =>
                               Involves(m, Resolved(actor, {"actor", "director", "crew"}))]_vars

\* C22: a datastore failure at any datastore call of a handler is answered
\* with status 500; the request is never left without a response.
C22_FailureIs500 ==
    /\ procs.outcome # "unhandled"
    /\ (procs.outcome = "answered" /\ procs.failedAt # 0) => procs.status = 500

\* the title is the title of a stored Movie
TitleUsed(title) == \E m \in DOMAIN movies : movies[m].title = title

\* C23: a create that conflicts with a uniqueness constraint is answered 400
\* and creates no record; here an admin's movie add whose title is already
\* the title of a stored Movie, all of its cast ids naming Persons.
C23_ConflictIs400 ==
    [][AdminAsked("movieAdd") =>
           \A body \in MovieBodies :
               (/\ body.title # "" /\ TitleUsed(body.title)
                /\ NamedIn(body) \subseteq DOMAIN persons
                /\ MovieAdd(LoginToken(resp'.user), body.title, body.directors,
                            body.actors, body.averageRating))
               => resp'.status = 400 /\ movies' = movies]_vars

\* C24: every stored Review has a whole-number rating from 1 to 5.
C24_IntegerRatings ==
    \A i \in 1..Len(reviews) :
        reviews[i].rating[2] = 1 /\ reviews[i].rating[1] \in 1..5

\* C25: GET /api/wishlist answers with totalItems equal to the number of
\* movies in the caller's wishlist, whatever page and limit were asked for,
\* and with a window of at most limit movies (for a limit of at least 1).
C25_WishlistTotal ==
    [][(resp'.op = "wishlistGet" /\ resp'.status = 200 /\ resp'.limit >= 1) =>
           \A tok \in Tokens, pageQ, limitQ \in QueryInputs :
               WishlistGet(tok, pageQ, limitQ) =>
                   /\ resp'.totalItems = Len(users[tok.userId].wishlist)
                   /\ Len(resp'.window) <= resp'.limit]_vars

\* C26: the movies returned by /top-genre and /top-month come with
\* non-increasing averageRating within the returned page.
C26_RatingDescending ==
    (resp.op \in {"moviesTopGenre", "moviesTopMonth"} /\ resp.status = 200) =>
        \A i, j \in 1..Len(resp.window) :
            i < j => ~lessThan(movies[resp.window[i]].averageRating,
                               movies[resp.window[j]].averageRating)

\* the password is shorter than 8 characters, or has no letter, or no digit
WeakPassword(password) ==
    \/ Len(password) < 8
    \/ \A i \in 1..Len(password) : password[i] \notin Lower \cup Upper
    \/ \A i \in 1..Len(password) : password[i] \notin Digits
\* the address is not local@domain.tld with a non-empty local part of letters,
\* digits, ".", "_" and "-", a non-empty domain of letters, digits, "." and
\* "-", and a top-level part of 2 to 6 letters
MalformedEmail(email) ==
    ~ \E at, dot \in 1..Len(email) :
          /\ email[at] = "@" /\ email[dot] = "."
          /\ at > 1 /\ dot > at + 1
          /\ \A i \in 1..(at - 1) : email[i] \in Lower \cup Upper \cup Digits \cup {".", "_", "-"}
          /\ \A i \in (at + 1)..(dot - 1) : email[i] \in Lower \cup Upper \cup Digits \cup {".", "-"}
          /\ Len(email) - dot \in 2..6
          /\ \A i \in (dot + 1)..Len(email) : email[i] \in Lower \cup Upper

C28_RejectedUnchanged ==
    [][resp'.status \in {400, 401, 403, 404} => UNCHANGED Data]_vars

\* a request was answered 404 after an earlier one had changed a collection:
\* the movie is removed from the list a second time
C28_Witness ==
    /\ resp.op = "listRemoveMovie" /\ resp.status = 404
    /\ lists[ListId(1)].movies = <<>>

\* C29: no request changes a User's role, username, email or password (or
\* removes the User); a User record changes only through a successful profile
\* or settings request of that user; the profile request leaves everything
\* but the four profile fields and the two flags alone, and the settings
\* request changes only the flags it supplies.
C29_IdentityKept ==
    [][\A u \in DOMAIN users :
           /\ u \in DOMAIN users'
           /\ users'[u].role = users[u].role
           /\ users'[u].username = users[u].username
           /\ users'[u].email = users[u].email
           /\ users'[u].password = users[u].password
           /\ users'[u].wishlist = users[u].wishlist
           /\ users'[u] # users[u] =>
                  /\ resp'.user = u /\ resp'.status = 200
                  /\ resp'.op \in {"profileManage", "settingsPatch"}
           /\ (resp'.op = "settingsPatch" /\ resp'.user = u) =>
                  /\ users'[u].profile = users[u].profile
                  /\ \A remainder, notifications \in FlagInputs :
                         SettingsPatch(LoginToken(u), remainder, notifications) =>
                             /\ remainder = <<>> =>
                                    users'[u].remindersForNewReleases = users[u].remindersForNewReleases
                             /\ notifications = <<>> =>
                                    users'[u].sendNotifications = users[u].sendNotifications]_vars

\* one user has set a nickname and the other has switched notifications off
C29_Witness ==
    /\ resp.op = "settingsPatch" /\ resp.status = 200
    /\ users[AccountId(1)].profile.nickName = "nick"
    /\ ~users[AccountId(2)].sendNotifications

\* C30: a Discussion's comment list is append-only: a successful comment post
\* appends exactly one comment, with the content of the request and the caller
\* as its author, at the end of the list of the discussion it names; no other
\* step changes a list, removes a discussion, or starts one with comments.
C30_AppendOnly ==
    [][/\ \A d \in DOMAIN discussions :
            /\ d \in DOMAIN discussions'
            /\ LET old == discussions[d].comments
                   new == discussions'[d].comments
               IN IF resp'.op = "commentPost" /\ resp'.status = 201 /\ resp'.target = d
                  THEN /\ Len(new) = Len(old) + 1
                       /\ SubSeq(new, 1, Len(old)) = old
                       /\ new[Len(new)].createdBy = resp'.user
                       /\ \E content \in CommentInputs :
                              /\ CommentPost(LoginToken(resp'.user), d, content)
                              /\ new[Len(new)].content = content
                  ELSE new = old
       /\ \A d \in DOMAIN discussions' \ DOMAIN discussions :
            discussions'[d].comments = <<>>]_vars

\* a second comment, by another author, was appended to a discussion
C30_Witness ==
    /\ resp.op = "commentPost" /\ resp.status = 201
    /\ Len(discussions[resp.target].comments) = 2
    /\ discussions[resp.target].comments[1].createdBy # resp.user
    /\ discussions[resp.target].comments[1].content # discussions[resp.target].comments[2].content

\* the review or list that this step deleted or changed in an owner-gated field
ReviewChanged(i) ==
    reviews'[i].rating # reviews[i].rating \/ reviews'[i].reviewText # reviews[i].reviewText
ListChanged(l) == l \notin DOMAIN lists' \/ lists'[l] # lists[l]
ListOps == {"listDelete", "listAddMovie", "listUpdate", "listRemoveMovie"}

\* C10: a review's rating or text is changed only by a request of the review's
\* user, and a custom list is renamed, re-described, given or relieved of a
\* movie, or deleted only by a request of the list's user; the same request
\* from another authenticated caller is answered 403 and changes nothing.
C10_OwnerOnly ==
    [][/\ \A i \in 1..Len(reviews) :
            ReviewChanged(i) => (resp'.op = "reviewPut" /\ resp'.user = reviews[i].user)
       /\ \A l \in DOMAIN lists :
            ListChanged(l) => (resp'.op \in ListOps /\ resp'.user = lists[l].user)
       /\ resp'.kind = "valid" =>
            LET u == resp'.user
                tok == LoginToken(u)
                denied == resp'.status = 403 /\ reviews' = reviews /\ lists' = lists /\ movies' = movies
            IN
            /\ (resp'.op = "reviewPut" /\ resp'.target[2] \in 1..Len(reviews)) =>
                  LET i == resp'.target[2] IN
                  \A r \in RatingInputs, t \in TextInputs :
                      (/\ reviews[i].user # u
                       /\ r # 0 \/ t # ""
                       /\ r = 0 \/ (r >= 1 /\ r <= 5)
                       /\ ReviewPut(tok, ReviewId(i), r, t)) => denied
            /\ (resp'.op \in ListOps /\ resp'.target \in DOMAIN lists) =>
                  LET l == resp'.target IN
                  lists[l].user # u =>
                    /\ ListDelete(tok, l) => denied
                    /\ \A m \in DOMAIN movies : ListAddMovie(tok, l, m) => denied
                    /\ \A m \in MovieIds \cup {BadId} : ListRemoveMovie(tok, l, m) => denied
                    /\ \A n \in ListNames, d \in Descriptions :
                          ((n # "" \/ d # "") /\ ListUpdate(tok, l, n, d)) => denied]_vars

\* another caller's add-movie on a list that exists, answered 403
C10_Witness ==
    /\ resp.op = "listAddMovie"
    /\ resp.status = 403
    /\ resp.target \in DOMAIN lists
    /\ resp.user # lists[resp.target].user

====
